---------------------------- MODULE Spec2Model ----------------------------
(***************************************************************************)
(* A model of the RAG pipeline of src/python/rag: the orchestrator          *)
(* (pipeline.py), the hybrid retriever and its keyword index                 *)
(* (retriever.py), the reranker (reranker.py), the generator (generator.py) *)
(* and the metrics collector (metrics.py).                                   *)
(*                                                                           *)
(* External collaborators (vector store, embedding, reranking and            *)
(* generation services, PDF loader, text splitter) are not modelled          *)
(* internally: every call to one of them is a nondeterministic choice over   *)
(* the outcomes it can produce (a result, or an exception).                  *)
(*                                                                           *)
(* Three specifications share the variables:                                 *)
(*   Spec        the orchestrator and the components it owns                 *)
(*   RerankSpec  NVIDIAReranker used on its own                              *)
(*   StreamSpec  NVIDIAGenerator.generate_stream, one event at a time        *)
(*               (FairStreamSpec: the same with a consumer that keeps        *)
(*               consuming)                                                  *)
(***************************************************************************)
EXTENDS Integers, Sequences, FiniteSets, TLC

\* ------------------------------------------------------------------ bounds
\* Longest text / question, in characters.
MaxTextLen == 1
\* Most documents the vector store holds.
MaxStore == 1
\* Most chunks one ingestion produces.
MaxBatch == 1
\* Most options in which a constructed configuration differs from the default.
MaxConfigChanges == 1
\* Most queries the metrics collector records.
MaxQueries == 1
\* Most content chunks the generation service streams for one answer.
MaxStreamChunks == 2
\* Longest candidate list handed to the reranker on its own.
MaxCandidates == 2
\* Most successful reranks / generations counted.
MaxCount == 2
\* Most words of a text given to the keyword searcher (document or query).
MaxWords == 2
\* Most documents of a corpus given to the keyword searcher.
MaxCorpus == 2

\* ------------------------------------------------------- program constants
\* RetrieverConfig.top_k and RetrieverConfig.top_n defaults.
DefaultTopK == 10
DefaultTopN == 5
\* The fetch limit of _rebuild_keyword_index.
FetchLimit == 10000
\* rrf_k of _reciprocal_rank_fusion.
RRF_K == 60
KeyLen == 200

\* ------------------------------------------------------------ small helpers
Min(a, b) == IF a <= b THEN a ELSE b
Max(a, b) == IF a >= b THEN a ELSE b
Range(s) == {s[i] : i \in 1..Len(s)}
SeqsUpTo(S, n) == UNION {[1..k -> S] : k \in 0..n}

\* Python's seq[:n]: the first n elements, or all but the last -n when n < 0.
PySlice(s, n) ==
    IF n >= 0 THEN SubSeq(s, 1, Min(n, Len(s)))
    ELSE SubSeq(s, 1, Max(Len(s) + n, 0))

\* An Optional[int] argument: <<>> is None, <<n>> is the integer n.
None == <<>>
\* Python's `opt or default`: None and 0 are both falsy.
PyOr(opt, default) == IF opt = None \/ opt[1] = 0 THEN default ELSE opt[1]

\* Characters of the texts and questions the model passes in.
Chars == {" ", "x"}
Texts == SeqsUpTo(Chars, MaxTextLen)
IsSpace(c) == c \in {" ", "\n"}

\* str.strip(): leading and trailing whitespace removed.
RECURSIVE LStrip(_)
LStrip(s) == IF s # <<>> /\ IsSpace(Head(s)) THEN LStrip(Tail(s)) ELSE s
RECURSIVE RStrip(_)
RStrip(s) ==
    IF s # <<>> /\ IsSpace(s[Len(s)]) THEN RStrip(SubSeq(s, 1, Len(s) - 1)) ELSE s
\* A strip that removes nothing (used to test the blank-input property).
NoStrip(s) == s
Strip(s) == RStrip(LStrip(s))

\* Document contents (each with a distinct 200-character prefix).
Docs == {"A", "B"}
\* Store-native similarity scores.
Scores == {1, 2}

\* Stable sort of (document, score) pairs by score, descending:
\* sorted(xs, key=lambda x: x[1], reverse=True).
RECURSIVE InsertDesc(_, _)
InsertDesc(sorted, x) ==
    IF sorted = <<>> THEN <<x>>
    ELSE IF Head(sorted)[2] >= x[2] THEN <<Head(sorted)>> \o InsertDesc(Tail(sorted), x)
    ELSE <<x>> \o sorted
RECURSIVE SortDesc(_)
SortDesc(xs) ==
    IF xs = <<>> THEN <<>>
    ELSE InsertDesc(SortDesc(SubSeq(xs, 1, Len(xs) - 1)), xs[Len(xs)])

\* ---------------------------------------------------------------- variables
VARIABLES
    pipeline,         \* a RAGPipeline object exists
    config,           \* its RAGConfig
    initialized,      \* RAGPipeline._initialized
    emb_client,       \* NVIDIAEmbedder._client is set
    vector_store,     \* HybridRetriever._vector_store is set
    rr_client,        \* NVIDIAReranker._client is set
    llm,              \* NVIDIAGenerator._llm is set
    llm_streaming,    \* NVIDIAGenerator._llm_streaming is set
    store,            \* the persisted collection: its documents, in order
    kw_documents,     \* KeywordSearcher._documents
    total_documents,  \* HybridRetriever._total_documents
    stage_timers,     \* RAGMetrics._stage_timers: the stages with a running timer
    queries,          \* RAGMetrics._queries
    rerank_count,     \* NVIDIAReranker._rerank_count
    generation_count, \* NVIDIAGenerator._generation_count
    last,             \* the last call: what was called, with what, and what came back
    gen_pc,           \* generate_stream: where the generator stands
    events,           \* generate_stream: the events yielded so far
    chunks_left,      \* generate_stream: chunks the service may still produce
    service,          \* generate_stream: the generation service's streaming call
    kw_term_freqs,    \* KeywordSearcher._doc_term_freqs
    kw_idf,           \* KeywordSearcher._idf
    threads,          \* concurrent callers: each one's position and local variables
    timer_values,     \* RAGMetrics._stage_timers values: the caller whose start_timer wrote each
    embedder,         \* NVIDIAEmbedder: rate_limit_rpm, _request_count, _last_request_time
    clock,            \* time.time(), in seconds
    embed_requests,   \* the requests that reached the embedding service: time and caller
    timer_history     \* per stage name, the last of start_timer / stop_timer / reset called

compVars == <<emb_client, vector_store, rr_client, llm, llm_streaming>>
storeVars == <<store, kw_documents, total_documents>>
metricVars == <<stage_timers, queries>>
countVars == <<rerank_count, generation_count>>
streamVars == <<gen_pc, events, chunks_left, service>>
\* The keyword index beyond its documents. The orchestrator specification
\* tracks the index by its documents alone and leaves these at their initial
\* values; the component specifications below use them.
kwVars == <<kw_term_freqs, kw_idf>>
rateVars == <<embedder, clock, embed_requests>>
unitVars == <<kwVars, threads, timer_values, rateVars, timer_history>>
vars == <<pipeline, config, initialized, compVars, storeVars, metricVars,
          countVars, last, streamVars, unitVars>>


\* The component-level variables before anything ran.
UnitInit ==
    /\ kw_term_freqs = <<>>
    /\ kw_idf = <<>>
    /\ threads = <<>>
    /\ timer_values = <<>>
    /\ embedder = <<>>
    /\ clock = 0
    /\ embed_requests = <<>>
    /\ timer_history = <<>>

\* ------------------------------------------------------------ configuration
\* The registries of config.py (keys only).
EMBEDDING_MODELS ==
    {"nv-embedqa-1b-v2", "nemoretriever-300m-v2", "nv-embedcode-7b",
     "nv-embedqa-e5-v5", "bge-m3"}
RERANKING_MODELS == {"nv-rerankqa-1b-v2", "nemoretriever-500m-rerank-v2"}
LLM_MODELS == {"kimi-k2-instruct"}

\* The options of RAGConfig the model varies. nvidia_api_key is abstracted to
\* "is a non-empty string"; weights are in tenths.
ConfigSpace ==
    [nvidia_api_key : BOOLEAN,
     embedding_model : {"nv-embedqa-1b-v2", "nonexistent"},
     reranking_model : {"nv-rerankqa-1b-v2", "nonexistent"},
     llm_model : {"kimi-k2-instruct", "nonexistent"},
     semantic_weight : {7, -7},
     keyword_weight : {3},
     top_k : {DefaultTopK},
     top_n : {DefaultTopN},
     use_hybrid : {TRUE},
     enable_reranking : BOOLEAN,
     enable_hybrid_search : BOOLEAN,
     enable_metrics : BOOLEAN]
\* RAGConfig's defaults, with an API key in the environment.
DefaultConfig ==
    [nvidia_api_key |-> TRUE,
     embedding_model |-> "nv-embedqa-1b-v2",
     reranking_model |-> "nv-rerankqa-1b-v2",
     llm_model |-> "kimi-k2-instruct",
     semantic_weight |-> 7,
     keyword_weight |-> 3,
     top_k |-> DefaultTopK,
     top_n |-> DefaultTopN,
     use_hybrid |-> TRUE,
     enable_reranking |-> TRUE,
     enable_hybrid_search |-> TRUE,
     enable_metrics |-> TRUE]
\* The configurations the model constructs pipelines from.
Configs ==
    {cfg \in ConfigSpace :
        Cardinality({f \in DOMAIN cfg : cfg[f] # DefaultConfig[f]}) <= MaxConfigChanges}

\* RAGConfig.get_embedding_model / get_reranking_model / get_llm_model raise
\* ValueError on a key that is not in the registry.
GetEmbeddingModelRaises(cfg) == cfg.embedding_model \notin EMBEDDING_MODELS
GetRerankingModelRaises(cfg) == cfg.reranking_model \notin RERANKING_MODELS
GetLlmModelRaises(cfg) == cfg.llm_model \notin LLM_MODELS

\* RAGConfig.validate: raises ValueError (TRUE) or returns (FALSE).
ValidateNoModelCheck(cfg) == ~cfg.nvidia_api_key
ValidateRaises(cfg) ==
    \/ ~cfg.nvidia_api_key
    \/ GetEmbeddingModelRaises(cfg)
    \/ GetRerankingModelRaises(cfg)
    \/ GetLlmModelRaises(cfg)

NoConfig == [c \in {} |-> 0]
NoCall == [op |-> "none", arg |-> <<>>, top |-> None, outcome |-> "none",
           calls |-> {}, result |-> <<>>]
Call(op, arg, outcome, calls, result) ==
    [op |-> op, arg |-> arg, top |-> None, outcome |-> outcome, calls |-> calls,
     result |-> result]

\* ------------------------------------------------------- metrics collector
\* RAGMetrics.start_timer: the timers after the call.
StartTimer(timers, stage) ==
    IF config.enable_metrics THEN timers \cup {stage} ELSE timers
StopTimerKeepsTimer(timers, stage) == timers
\* RAGMetrics.stop_timer returns a StageMetric (TRUE) or None (FALSE) ...
StopTimerReturns(timers, stage) == config.enable_metrics /\ stage \in timers
\* ... and leaves these timers.
StopTimer(timers, stage) ==
    IF StopTimerReturns(timers, stage) THEN timers \ {stage} ELSE timers
\* The stage list of the caller after `if metric: stages.append(metric)`.
AppendMetric(stages, timers, stage) ==
    IF StopTimerReturns(timers, stage) THEN Append(stages, stage) ELSE stages
\* RAGMetrics.record_query: the history after the call. Latencies are not
\* modelled: a QueryMetric is its stage names and its success flag.
RecordQueryNoAppend(qs, stages, success) == qs
RecordQuery(qs, stages, success) ==
    IF ~config.enable_metrics THEN qs
    ELSE Append(qs, [stages |-> stages, success |-> success])
\* The QueryMetric record_query returns.
RecordQueryReturns(stages, success) ==
    IF ~config.enable_metrics THEN [stages |-> <<>>, success |-> success]
    ELSE [stages |-> stages, success |-> success]


\* ------------------------------------------------------------ vector store
\* Sequences of `len` distinct positions of a list of n elements.
Arrangements(n, len) ==
    {p \in [1..len -> 1..n] : \A i, j \in 1..len : i # j => p[i] # p[j]}
\* Non-increasing score lists of a ranked result.
RankedScores(len) ==
    {sc \in [1..len -> Scores] : \A i \in 1..len - 1 : sc[i] >= sc[i + 1]}
\* Every ranked list of m entries of `docs`, as (document, score) pairs.
RankedLists(docs, m) ==
    {[i \in 1..m |-> <<docs[p[i]], sc[i]>>] :
        p \in Arrangements(Len(docs), m), sc \in RankedScores(m)}

\* What similarity_search_with_score(query, k) may return from collection
\* `st`: the k nearest documents (all of them when there are fewer), ranked.
SemanticResults(st, k) == RankedLists(st, Min(Max(k, 0), Len(st)))

\* ------------------------------------------------------------ keyword index
\* What KeywordSearcher.search(query, top_k) may return over the indexed
\* documents `docs`: nothing when the index is empty, else at most top_k
\* distinct documents ranked by (positive) score.
KeywordResults(docs, k) ==
    IF docs = <<>> THEN {<<>>}
    ELSE UNION {RankedLists(docs, m) : m \in 0..Min(Max(k, 0), Len(docs))}

\* ---------------------------------------------------------- hybrid retriever
\* HybridRetriever._rebuild_keyword_index. `rb` is what the collection does:
\* "ok", "count_fails" (collection.count() raises) or "get_fails"
\* (collection.get() raises); every exception is caught and logged.
\* Returns the keyword index's documents and _total_documents.
RebuildKeywordIndex(vs, st, kw, total, rb) ==
    IF ~vs THEN [kw |-> kw, total |-> total]
    ELSE IF rb = "count_fails" THEN [kw |-> kw, total |-> total]
    ELSE LET count == Len(st) IN
         IF count > 0
         THEN IF rb = "get_fails" THEN [kw |-> kw, total |-> count]
              ELSE [kw |-> PySlice(st, Min(count, FetchLimit)), total |-> count]
         ELSE [kw |-> kw, total |-> count]
RebuildOutcomes == {"ok", "count_fails", "get_fails"}

\* One list's contribution weight / (rrf_k + rank + 1), scaled by RRF_SCALE so
\* that it is an integer for every rank up to 3 (weights are in tenths).
RRF_SCALE == 61 * 62 * 63 * 64
RrfScoreFromRankOne(weight, rank) == (weight * RRF_SCALE) \div (RRF_K + rank + 2)
RrfScore(weight, rank) == (weight * RRF_SCALE) \div (RRF_K + rank + 1)

\* key = doc.page_content[:200]: the identity under which a document is merged.
DocKey(doc) == PySlice(doc, KeyLen)

\* The scoring loop with the else branch only: a later contribution replaces
\* an earlier one (used to test the accumulation).
RECURSIVE FuseIntoOverwrite(_, _, _, _)
FuseIntoOverwrite(doc_scores, results, weight, rank) ==
    IF results = <<>> THEN doc_scores
    ELSE LET doc == Head(results)[1]
             rrf_score == RrfScore(weight, rank)
             at == {i \in 1..Len(doc_scores) : DocKey(doc_scores[i][1]) = DocKey(doc)}
             next == IF at = {} THEN Append(doc_scores, <<doc, rrf_score>>)
                     ELSE LET i == CHOOSE x \in at : TRUE
                          IN [doc_scores EXCEPT ![i] = <<doc_scores[i][1], rrf_score>>]
         IN FuseIntoOverwrite(next, Tail(results), weight, rank + 1)
\* The two loops of _reciprocal_rank_fusion: doc_scores after scoring
\* `results` from rank `rank` on (a dict keeps insertion order; an entry keeps
\* the first document seen under its key).
RECURSIVE FuseInto(_, _, _, _)
FuseInto(doc_scores, results, weight, rank) ==
    IF results = <<>> THEN doc_scores
    ELSE LET doc == Head(results)[1]
             rrf_score == RrfScore(weight, rank)
             at == {i \in 1..Len(doc_scores) : DocKey(doc_scores[i][1]) = DocKey(doc)}
             next == IF at = {} THEN Append(doc_scores, <<doc, rrf_score>>)
                     ELSE LET i == CHOOSE x \in at : TRUE
                          IN [doc_scores EXCEPT ![i] = <<doc_scores[i][1],
                                                         doc_scores[i][2] + rrf_score>>]
         IN FuseInto(next, Tail(results), weight, rank + 1)

\* The fusion without the final sort and slice (used to test the ordering).
FusionUnsorted(semantic, keyword, semantic_weight, keyword_weight, top_k) ==
    FuseInto(FuseInto(<<>>, semantic, semantic_weight, 0), keyword, keyword_weight, 0)
\* HybridRetriever._reciprocal_rank_fusion.
ReciprocalRankFusion(semantic, keyword, semantic_weight, keyword_weight, top_k) ==
    PySlice(SortDesc(FuseInto(FuseInto(<<>>, semantic, semantic_weight, 0),
                              keyword, keyword_weight, 0)),
            top_k)

\* HybridRetriever.retrieve, after the similarity search returned `semantic`
\* and (in hybrid mode) the keyword search `keyword`.
Retrieve(cfg, semantic, keyword, k) ==
    IF ~cfg.use_hybrid \/ ~cfg.enable_hybrid_search THEN semantic
    ELSE ReciprocalRankFusion(semantic, keyword, cfg.semantic_weight,
                              cfg.keyword_weight, k)

\* ------------------------------------------------------------------ reranker
\* What the reranking service may answer for `documents`: an exception, or
\* some of the documents, each with a relevance score.
RerankResponses(documents) ==
    {[ok |-> FALSE, docs |-> <<>>]} \cup
    {[ok |-> TRUE, docs |-> d] :
        d \in UNION {{[i \in 1..m |-> <<documents[p[i]][1], sc[i]>>] :
                        p \in Arrangements(Len(documents), m),
                        sc \in [1..m -> Scores]} : m \in 0..Len(documents)}}

\* NVIDIAReranker.rerank(query, documents, top_n) with the service answering
\* `svc`: the list returned, whether the service was called, and whether
\* _rerank_count was incremented.
RerankPassThrough(cfg, documents, top_n) ==
    PySlice(documents, PyOr(top_n, cfg.top_n))
\* A fallback that forgets the truncation (used to test the fallback property).
RerankFallbackUntruncated(cfg, documents, top_n) == documents
RerankFailureFallback(cfg, documents, top_n) ==
    PySlice(documents, PyOr(top_n, cfg.top_n))
Rerank(cfg, client, documents, top_n, svc) ==
    IF ~cfg.enable_reranking \/ ~client
    THEN [result |-> RerankPassThrough(cfg, documents, top_n),
          called |-> FALSE, counted |-> FALSE]
    ELSE IF documents = <<>>
    THEN [result |-> <<>>, called |-> FALSE, counted |-> FALSE]
    ELSE IF ~svc.ok
    THEN [result |-> RerankFailureFallback(cfg, documents, top_n),
          called |-> TRUE, counted |-> FALSE]
    ELSE [result |-> PySlice(SortDesc(svc.docs), PyOr(top_n, cfg.top_n)),
          called |-> TRUE, counted |-> TRUE]


\* ================================================================ pipeline
\* RAGPipeline._ensure_initialized raises RuntimeError.
EnsureInitializedNeverRaises == FALSE
EnsureInitializedRaises == ~initialized

\* The components __init__ constructs once validate() has returned.
Components == {"embedder", "chunker", "retriever", "reranker", "generator", "metrics"}

\* RAGPipeline.__init__(config).
Construct(cfg) ==
    /\ ~pipeline
    /\ IF ValidateRaises(cfg)
       THEN /\ last' = Call("construct", cfg, "ValueError", {}, <<>>)
            /\ UNCHANGED <<pipeline, config, initialized, compVars, storeVars,
                           metricVars, countVars>>
       ELSE /\ pipeline' = TRUE
            /\ config' = cfg
            /\ initialized' = FALSE
            /\ emb_client' = FALSE
            /\ vector_store' = FALSE
            /\ rr_client' = FALSE
            /\ llm' = FALSE
            /\ llm_streaming' = FALSE
            /\ kw_documents' = <<>>
            /\ total_documents' = 0
            /\ stage_timers' = {}
            /\ queries' = <<>>
            /\ rerank_count' = 0
            /\ generation_count' = 0
            /\ last' = Call("construct", cfg, "ok", Components, <<>>)
            /\ UNCHANGED store
    /\ UNCHANGED <<streamVars, unitVars>>

\* The steps of RAGPipeline.initialize, in order; step 6 is `_initialized = True`.
\* A client constructor that raises ends initialize at its step.
InitSteps ==
    [embedder |-> 1, retriever |-> 2, reranker |-> 3, llm |-> 4,
     llm_streaming |-> 5, none |-> 6]
InitFailures == {"embedder", "retriever", "reranker", "llm", "llm_streaming", "none"}

\* RAGPipeline.initialize(), ending at step `fail_at` ("none": it returns).
Initialize(fail_at, rb) ==
    LET done(step) == InitSteps[fail_at] > InitSteps[step]
        vs == IF done("retriever") THEN TRUE ELSE vector_store
        rebuilt == IF done("retriever")
                   THEN RebuildKeywordIndex(TRUE, store, kw_documents, total_documents, rb)
                   ELSE [kw |-> kw_documents, total |-> total_documents]
    IN /\ pipeline
       /\ fail_at = "reranker" => config.enable_reranking
       /\ emb_client' = (IF done("embedder") THEN TRUE ELSE emb_client)
       /\ vector_store' = vs
       /\ kw_documents' = rebuilt.kw
       /\ total_documents' = rebuilt.total
       /\ rr_client' = (IF done("reranker") /\ config.enable_reranking
                         THEN TRUE ELSE rr_client)
       /\ llm' = (IF done("llm") THEN TRUE ELSE llm)
       /\ llm_streaming' = (IF done("llm_streaming") THEN TRUE ELSE llm_streaming)
       /\ initialized' = (IF fail_at = "none" THEN TRUE ELSE initialized)
       /\ last' = Call("initialize", <<>>,
                       IF fail_at = "none" THEN "ok" ELSE "InitError",
                       {"embedder"} \cup
                       (IF done("embedder") THEN {"retriever"} ELSE {}) \cup
                       (IF done("retriever") THEN {"vector_store", "reranker"} ELSE {}) \cup
                       (IF done("reranker") THEN {"generator"} ELSE {}),
                       <<>>)
       /\ UNCHANGED <<pipeline, config, store, metricVars, countVars, streamVars, unitVars>>

\* A pipeline call that raises before it touches anything.
Rejected(op, arg, top, error) ==
    /\ last' = Call(op, arg, error, {}, <<>>)
    /\ UNCHANGED <<pipeline, config, initialized, compVars, storeVars, metricVars,
                   countVars, streamVars, unitVars>>

\* A pipeline call that raises `error` after invoking `calls`, leaving the
\* timers `timers` behind.
Raised(op, arg, top, error, calls, timers) ==
    /\ last' = Call(op, arg, error, calls, <<>>)
    /\ stage_timers' = timers
    /\ UNCHANGED <<pipeline, config, initialized, compVars, storeVars, queries,
                   countVars, streamVars, unitVars>>


\* The chunk lists the chunker may produce (documents of the model's universe).
ChunkLists(least) == UNION {[1..n -> Docs] : n \in least..MaxBatch}

\* HybridRetriever.add_documents(chunks) once the store accepted the chunks,
\* followed by the caller's stop_timer("indexing") and its success report.
Ingested(op, arg, chunks, rb, timers, calls) ==
    LET st == store \o chunks
        rebuilt == RebuildKeywordIndex(vector_store, st, kw_documents,
                                       total_documents + Len(chunks), rb)
    IN /\ store' = st
       /\ kw_documents' = rebuilt.kw
       /\ total_documents' = rebuilt.total
       /\ stage_timers' = StopTimer(timers, "indexing")
       /\ last' = Call(op, arg, "ok", calls,
                       [status |-> "success", chunks |-> Len(chunks)])
       /\ UNCHANGED <<pipeline, config, initialized, compVars, queries, countVars,
                      streamVars, unitVars>>

\* Chunks in hand: start_timer("indexing"), retriever.add_documents(chunks).
Index(op, arg, chunks, timers, calls) ==
    LET indexing == StartTimer(timers, "indexing")
        called == calls \cup {"retriever"}
    IN IF ~vector_store
       THEN Raised(op, arg, None, "RetrieverNotInitialized", called, indexing)
       ELSE \/ Raised(op, arg, None, "StoreError",
                      called \cup {"embedding_service", "vector_store"}, indexing)
            \/ /\ Len(store) + Len(chunks) <= MaxStore
               /\ \E rb \in RebuildOutcomes :
                    Ingested(op, arg, chunks, rb, indexing,
                             called \cup {"embedding_service", "vector_store"})

\* RAGPipeline.load_text(text).
LoadText(text) ==
    /\ pipeline
    /\ IF EnsureInitializedRaises THEN Rejected("load_text", text, None, "NotInitialized")
       ELSE IF Strip(text) = <<>> THEN Rejected("load_text", text, None, "ValueError")
       ELSE LET chunking == StartTimer(stage_timers, "chunking")
            IN \/ Raised("load_text", text, None, "ChunkError", {"chunker"}, chunking)
               \/ \E chunks \in ChunkLists(1) :
                    Index("load_text", text, chunks,
                          StopTimer(chunking, "chunking"), {"chunker"})

\* The paths load_pdf is given: a missing file, a file that is no PDF, a PDF.
Paths == {"missing.pdf", "notes.txt", "notes.pdf"}

\* RAGPipeline.load_pdf(pdf_path).
LoadPdf(path) ==
    /\ pipeline
    /\ IF EnsureInitializedRaises THEN Rejected("load_pdf", path, None, "NotInitialized")
       ELSE IF path = "missing.pdf"
       THEN Rejected("load_pdf", path, None, "FileNotFoundError")
       ELSE IF path # "notes.pdf" THEN Rejected("load_pdf", path, None, "ValueError")
       ELSE LET loading == StartTimer(stage_timers, "document_load")
                loaded == StopTimer(loading, "document_load")
                chunking == StartTimer(loaded, "chunking")
            IN \* loader.load() raises
               \/ Raised("load_pdf", path, None, "LoaderError", {"loader"}, loading)
               \* the PDF has no pages
               \/ Raised("load_pdf", path, None, "ValueError", {"loader"}, loading)
               \/ Raised("load_pdf", path, None, "ChunkError", {"loader", "chunker"},
                         chunking)
               \/ \E chunks \in ChunkLists(0) :
                    Index("load_pdf", path, chunks,
                          StopTimer(chunking, "chunking"), {"loader", "chunker"})

\* RAGPipeline.clear_collection() and HybridRetriever.clear().
\* HybridRetriever.clear: self._keyword_searcher = KeywordSearcher(), the
\* documents of the searcher that replaces the one holding `documents`.
KeptKeywordSearcher(documents) == documents
NewKeywordSearcher(documents) == <<>>
ClearCollection ==
    /\ pipeline
    /\ IF EnsureInitializedRaises THEN Rejected("clear_collection", <<>>, None, "NotInitialized")
       ELSE IF ~vector_store
       THEN /\ last' = Call("clear_collection", <<>>, "ok", {"retriever"}, <<>>)
            /\ UNCHANGED <<pipeline, config, initialized, compVars, storeVars,
                           metricVars, countVars, streamVars, unitVars>>
       ELSE \/ Raised("clear_collection", <<>>, None, "StoreError",
                      {"retriever", "vector_store"}, stage_timers)
            \/ /\ store' = <<>>
               /\ total_documents' = 0
               /\ kw_documents' = NewKeywordSearcher(kw_documents)
               /\ last' = Call("clear_collection", <<>>, "ok",
                               {"retriever", "vector_store"}, <<>>)
               /\ UNCHANGED <<pipeline, config, initialized, compVars, metricVars,
                              countVars, streamVars, unitVars>>


\* The top_k arguments the model passes: omitted, or 1.
TopKs == {None, <<1>>}

\* The keyword channel of retrieve: searched only in hybrid mode.
KeywordChannel(cfg, k) ==
    IF ~cfg.use_hybrid \/ ~cfg.enable_hybrid_search THEN {<<>>}
    ELSE KeywordResults(kw_documents, k)
\* The answers the reranking service may give to rerank(question, retrieved):
\* it is asked only when reranking is enabled and its client is set.
RerankChannel(retrieved) ==
    IF ~config.enable_reranking \/ ~rr_client THEN {[ok |-> FALSE, docs |-> <<>>]}
    ELSE RerankResponses(retrieved)

\* The services rerank() and generate() reach.
RerankCalls(r) ==
    {"reranker"} \cup (IF r.called THEN {"reranking_service"} ELSE {})
RetrieveCalls == {"retriever", "embedding_service", "vector_store"}

\* A failed similarity search answered as if nothing had been found (used to
\* test the propagation property).
SimilaritySearchFallsBack(op, question, top_k, timers) ==
    /\ last' = Call(op, question, "ok",
                     RetrieveCalls \cup {"similarity_search_failed"},
                     [answer |-> "no_information", has_metrics |-> FALSE,
                      stages |-> <<>>, chunks_retrieved |-> 0])
    /\ stage_timers' = timers
    /\ UNCHANGED <<pipeline, config, initialized, compVars, storeVars, queries,
                   countVars, streamVars, unitVars>>
\* retriever.retrieve(): the similarity search (the embedding of the query or
\* the vector store) raises; neither retrieve() nor query() catches it.
SimilaritySearchRaises(op, question, top_k, timers) ==
    Raised(op, question, top_k, "StoreError",
           RetrieveCalls \cup {"similarity_search_failed"}, timers)

\* query(): retrieval returned nothing, the early return of lines 241-246.
QueryNothingFound(question, top_k, timers) ==
    /\ last' = Call("query", question, "ok", RetrieveCalls,
                     [answer |-> "no_information", has_metrics |-> FALSE,
                      stages |-> <<>>, chunks_retrieved |-> 0])
    /\ stage_timers' = timers
    /\ UNCHANGED <<pipeline, config, initialized, compVars, storeVars, queries,
                   countVars, streamVars, unitVars>>

\* query(): rerank, generate, record the metrics, return the answer.
QueryAnswer(question, top_k, retrieved, stages1, timers1) ==
    \E svc \in RerankChannel(retrieved), gen_ok \in BOOLEAN :
        LET timers2 == StartTimer(timers1, "reranking")
            r == Rerank(config, rr_client, retrieved, None, svc)
            stages2 == AppendMetric(stages1, timers2, "reranking")
            timers3 == StartTimer(StopTimer(timers2, "reranking"), "generation")
            stages3 == AppendMetric(stages2, timers3, "generation")
            timers4 == StopTimer(timers3, "generation")
            counted == IF r.counted THEN rerank_count + 1 ELSE rerank_count
            called == RetrieveCalls \cup RerankCalls(r) \cup {"generator"}
        IN IF ~llm
           THEN /\ last' = Call("query", question, "GeneratorNotInitialized",
                                 called, <<>>)
                /\ stage_timers' = timers3
                /\ rerank_count' = counted
                /\ UNCHANGED <<pipeline, config, initialized, compVars, storeVars,
                               queries, generation_count, streamVars, unitVars>>
           ELSE IF ~gen_ok
           THEN /\ last' = Call("query", question, "GenerationError",
                                 called \cup {"generation_service"}, <<>>)
                /\ stage_timers' = timers3
                /\ rerank_count' = counted
                /\ UNCHANGED <<pipeline, config, initialized, compVars, storeVars,
                               queries, generation_count, streamVars, unitVars>>
           ELSE /\ generation_count' = generation_count + 1
                /\ rerank_count' = counted
                /\ stage_timers' = timers4
                /\ queries' = RecordQuery(queries, stages3, TRUE)
                /\ last' = Call("query", question, "ok",
                                 called \cup {"generation_service"},
                                 [answer |-> "answer", has_metrics |-> TRUE,
                                  stages |-> stages3,
                                  chunks_retrieved |-> Len(r.result)])
                /\ UNCHANGED <<pipeline, config, initialized, compVars, storeVars,
                               streamVars, unitVars>>

\* RAGPipeline.query(question, top_k).
Query(question, top_k) ==
    /\ pipeline
    /\ Len(queries) < MaxQueries
    /\ generation_count < MaxQueries
    /\ rerank_count < MaxQueries
    /\ IF EnsureInitializedRaises THEN Rejected("query", question, top_k, "NotInitialized")
       ELSE IF Strip(question) = <<>> THEN Rejected("query", question, top_k, "ValueError")
       ELSE LET timers0 == StartTimer(stage_timers, "retrieval")
                k == PyOr(top_k, config.top_k)
            IN IF ~vector_store
               THEN Raised("query", question, top_k, "RetrieverNotInitialized",
                           {"retriever"}, timers0)
               ELSE \* the similarity search raises
                    \/ SimilaritySearchRaises("query", question, top_k, timers0)
                    \/ \E semantic \in SemanticResults(store, k),
                          keyword \in KeywordChannel(config, k) :
                         LET retrieved == Retrieve(config, semantic, keyword, k)
                             stages1 == AppendMetric(<<>>, timers0, "retrieval")
                             timers1 == StopTimer(timers0, "retrieval")
                         IN IF retrieved = <<>>
                            THEN QueryNothingFound(question, top_k, timers1)
                            ELSE QueryAnswer(question, top_k, retrieved, stages1,
                                             timers1)


\* The events of one fully consumed generate_stream whose service streamed n
\* non-empty chunks and then finished (ok) or raised.
RECURSIVE Deltas(_)
Deltas(n) == IF n = 0 THEN <<>> ELSE <<"content">> \o Deltas(n - 1)
StreamEvents(n, ok) ==
    Deltas(n) \o (IF ok THEN <<"sources", "done">> ELSE <<"error">>)

\* RAGPipeline.query_stream(question, top_k), consumed to its end.
QueryStream(question, top_k) ==
    /\ pipeline
    /\ generation_count < MaxQueries
    /\ rerank_count < MaxQueries
    /\ IF EnsureInitializedRaises
       THEN Rejected("query_stream", question, top_k, "NotInitialized")
       ELSE IF Strip(question) = <<>>
       THEN Rejected("query_stream", question, top_k, "ValueError")
       ELSE LET k == PyOr(top_k, config.top_k)
            IN IF ~vector_store
               THEN Raised("query_stream", question, top_k, "RetrieverNotInitialized",
                           {"retriever"}, stage_timers)
               ELSE \/ SimilaritySearchRaises("query_stream", question, top_k,
                                              stage_timers)
                    \/ \E semantic \in SemanticResults(store, k),
                          keyword \in KeywordChannel(config, k) :
                         LET retrieved == Retrieve(config, semantic, keyword, k)
                         IN IF retrieved = <<>>
                            THEN /\ last' = Call("query_stream", question, "ok",
                                                  RetrieveCalls, <<"content", "done">>)
                                 /\ UNCHANGED <<pipeline, config, initialized, compVars,
                                                storeVars, metricVars, countVars,
                                                streamVars, unitVars>>
                            ELSE \E svc \in RerankChannel(retrieved),
                                    n \in 0..MaxStreamChunks, gen_ok \in BOOLEAN :
                                   LET r == Rerank(config, rr_client, retrieved, None, svc)
                                       called == RetrieveCalls \cup RerankCalls(r)
                                                 \cup {"generator"}
                                   IN /\ rerank_count' =
                                            (IF r.counted THEN rerank_count + 1
                                             ELSE rerank_count)
                                      /\ IF ~llm_streaming
                                         THEN /\ last' = Call("query_stream", question,
                                                               "GeneratorNotInitialized",
                                                               called, <<>>)
                                              /\ UNCHANGED generation_count
                                         ELSE /\ last' = Call("query_stream", question,
                                                               "ok",
                                                               called \cup {"generation_service"},
                                                               StreamEvents(n, gen_ok))
                                              /\ generation_count' =
                                                    (IF gen_ok THEN generation_count + 1
                                                     ELSE generation_count)
                                      /\ UNCHANGED <<pipeline, config, initialized,
                                                     compVars, storeVars, metricVars,
                                                     streamVars, unitVars>>

\* ------------------------------------------------------- the orchestrator
\* Before construction: no pipeline object, an empty collection.
Init ==
    /\ pipeline = FALSE
    /\ config = NoConfig
    /\ initialized = FALSE
    /\ emb_client = FALSE
    /\ vector_store = FALSE
    /\ rr_client = FALSE
    /\ llm = FALSE
    /\ llm_streaming = FALSE
    /\ store = <<>>
    /\ kw_documents = <<>>
    /\ total_documents = 0
    /\ stage_timers = {}
    /\ queries = <<>>
    /\ rerank_count = 0
    /\ generation_count = 0
    /\ last = NoCall
    /\ gen_pc = "idle"
    /\ events = <<>>
    /\ chunks_left = 0
    /\ service = "idle"
    /\ UnitInit

\* The calls a program makes, with every argument of the model's input sets.
DoConstruct == ~pipeline /\ \E cfg \in Configs : Construct(cfg)
DoInitialize ==
    /\ pipeline
    /\ \E fail_at \in InitFailures :
         \E rb \in (IF InitSteps[fail_at] > InitSteps["retriever"] /\ store # <<>>
                    THEN RebuildOutcomes ELSE {"ok"}) :
            Initialize(fail_at, rb)
DoLoadText == pipeline /\ \E text \in Texts : LoadText(text)
DoLoadPdf == pipeline /\ \E path \in Paths : LoadPdf(path)
DoQuery == pipeline /\ \E question \in Texts, top_k \in TopKs : Query(question, top_k)
DoQueryStream ==
    pipeline /\ \E question \in Texts, top_k \in TopKs : QueryStream(question, top_k)

Next ==
    \/ DoConstruct
    \/ DoInitialize
    \/ DoLoadText
    \/ DoLoadPdf
    \/ DoQuery
    \/ DoQueryStream
    \/ ClearCollection

Spec == Init /\ [][Next]_vars


\* ================================================= the reranker on its own
\* (document, score) candidate lists, as a retrieval may produce them.
Candidates == SeqsUpTo(Docs \X Scores, MaxCandidates)
\* The top_n arguments: omitted, or an integer.
TopNs == {None} \cup {<<n>> : n \in 0..MaxCandidates}
\* RetrieverConfig.top_n is configurable: the default, or 1.
RerankConfigs ==
    {[DefaultConfig EXCEPT !.enable_reranking = e, !.top_n = n] :
        e \in BOOLEAN, n \in {1, DefaultTopN}}

RerankInit ==
    /\ pipeline = FALSE
    /\ config \in RerankConfigs
    /\ initialized = FALSE
    /\ emb_client = FALSE
    /\ vector_store = FALSE
    /\ rr_client = FALSE
    /\ llm = FALSE
    /\ llm_streaming = FALSE
    /\ store = <<>>
    /\ kw_documents = <<>>
    /\ total_documents = 0
    /\ stage_timers = {}
    /\ queries = <<>>
    /\ rerank_count = 0
    /\ generation_count = 0
    /\ last = NoCall
    /\ gen_pc = "idle"
    /\ events = <<>>
    /\ chunks_left = 0
    /\ service = "idle"
    /\ UnitInit

\* NVIDIAReranker.initialize(): nothing when reranking is disabled; else the
\* client is constructed (or its constructor raises).
RerankerInitialize ==
    /\ \/ /\ ~config.enable_reranking
          /\ last' = Call("reranker.initialize", <<>>, "ok", {}, <<>>)
          /\ UNCHANGED rr_client
       \/ /\ config.enable_reranking
          /\ rr_client' = TRUE
          /\ last' = Call("reranker.initialize", <<>>, "ok", {}, <<>>)
       \/ /\ config.enable_reranking
          /\ last' = Call("reranker.initialize", <<>>, "InitError", {}, <<>>)
          /\ UNCHANGED rr_client
    /\ UNCHANGED <<pipeline, config, initialized, emb_client, vector_store, llm,
                   llm_streaming, storeVars, metricVars, countVars, streamVars, unitVars>>

\* NVIDIAReranker.rerank(query, documents, top_n), the service answering svc.
\* `calls` tells whether the service was asked and whether it failed.
RerankCall(documents, top_n, svc) ==
    LET r == Rerank(config, rr_client, documents, top_n, svc)
    IN /\ rerank_count < MaxCount
       /\ rerank_count' = (IF r.counted THEN rerank_count + 1 ELSE rerank_count)
       /\ last' = [Call("rerank", documents, "ok",
                        IF ~r.called THEN {}
                        ELSE IF svc.ok THEN {"reranking_service"}
                        ELSE {"reranking_service", "reranking_service_failed"},
                        r.result)
                   EXCEPT !.top = top_n]
       /\ UNCHANGED <<pipeline, config, initialized, compVars, storeVars, metricVars,
                      generation_count, streamVars, unitVars>>

DoRerank ==
    \E documents \in Candidates, top_n \in TopNs :
        \E svc \in (IF ~config.enable_reranking \/ ~rr_client \/ documents = <<>>
                    THEN {[ok |-> FALSE, docs |-> <<>>]}
                    ELSE RerankResponses(documents)) :
            RerankCall(documents, top_n, svc)

RerankNext == RerankerInitialize \/ DoRerank

RerankSpec == RerankInit /\ [][RerankNext]_vars


\* ================================================== properties: reranker
\* The first n entries of a list, n >= 0, entries and order unchanged.
FirstN(s, n) == [i \in 1..Min(n, Len(s)) |-> s[i]]
RerankSkipped == ~config.enable_reranking \/ ~rr_client
ServiceFailed == "reranking_service_failed" \in last.calls

\* C4: when reranking is disabled or the client was never initialized,
\* rerank(query, results, top_n) with an explicitly given top_n returns
\* exactly the first top_n entries of the input, unchanged, does not raise
\* and does not call the reranking service.
C4_PassThroughReturnsFirstTopN ==
    (last.op = "rerank" /\ RerankSkipped /\ last.top # None)
        => /\ last.outcome = "ok"
           /\ last.result = FirstN(last.arg, last.top[1])
           /\ "reranking_service" \notin last.calls

\* C5: when reranking is enabled and the call to the reranking service
\* fails, rerank returns normally with exactly what the disabled pass-through
\* returns for the same input and top_n, and the count of successful reranks
\* is unchanged.
C5_ServiceFailureFallsBackToPassThrough ==
    [][(last'.op = "rerank" /\ "reranking_service_failed" \in last'.calls)
        => /\ config.enable_reranking /\ rr_client
           /\ last'.outcome = "ok"
           /\ last'.result = RerankPassThrough(config, last'.arg, last'.top)
           /\ rerank_count' = rerank_count]_vars
\* A failed service call after a counted rerank, on a list longer than top_n.
C5_Witness ==
    /\ last.op = "rerank" /\ ServiceFailed
    /\ Len(last.arg) = 2 /\ last.top = <<1>>
    /\ last.result = <<last.arg[1]>>
    /\ rerank_count = 1


\* ============================================ generate_stream, step by step
\* The generator object of NVIDIAGenerator.generate_stream and its consumer.
\* gen_pc: "idle" (no stream yet), "raised" (the call raised RuntimeError),
\* "streaming" (inside the async for), "at_sources" / "at_done" / "at_error"
\* (suspended at that yield), "ended" (the generator returned), "closed" (the
\* consumer closed it before its end).
StreamInit ==
    /\ pipeline = FALSE
    /\ config = DefaultConfig
    /\ initialized = FALSE
    /\ emb_client = FALSE
    /\ vector_store = FALSE
    /\ rr_client = FALSE
    /\ llm = FALSE
    /\ llm_streaming = FALSE
    /\ store = <<>>
    /\ kw_documents = <<>>
    /\ total_documents = 0
    /\ stage_timers = {}
    /\ queries = <<>>
    /\ rerank_count = 0
    /\ generation_count = 0
    /\ last = NoCall
    /\ gen_pc = "idle"
    /\ events = <<>>
    /\ chunks_left = 0
    /\ service = "idle"
    /\ UnitInit

streamRest ==
    <<pipeline, config, initialized, emb_client, vector_store, rr_client,
      storeVars, metricVars, rerank_count, last, unitVars>>

\* NVIDIAGenerator.initialize(): _llm, then _llm_streaming; either constructor
\* may raise.
GeneratorInitialize ==
    /\ \E fail_at \in {"llm", "llm_streaming", "none"} :
          /\ llm' = (IF fail_at = "llm" THEN llm ELSE TRUE)
          /\ llm_streaming' = (IF fail_at = "none" THEN TRUE ELSE llm_streaming)
    /\ UNCHANGED <<streamRest, generation_count, streamVars, unitVars>>

\* The consumer calls generate_stream and asks for the first event.
StreamStart ==
    /\ gen_pc \in {"idle", "raised", "ended", "closed"}
    /\ generation_count < MaxCount
    /\ events' = <<>>
    /\ IF ~llm_streaming
       THEN /\ gen_pc' = "raised"
            /\ service' = "idle"
            /\ chunks_left' = 0
       ELSE /\ gen_pc' = "streaming"
            /\ service' = "streaming"
            /\ chunks_left' \in 0..MaxStreamChunks
    /\ UNCHANGED <<streamRest, llm, llm_streaming, generation_count>>

\* The service delivers a chunk; one with content is yielded as an event.
ServiceChunk ==
    /\ gen_pc = "streaming"
    /\ chunks_left > 0
    /\ chunks_left' = chunks_left - 1
    /\ \E has_content \in BOOLEAN :
          events' = (IF has_content THEN Append(events, "content") ELSE events)
    /\ UNCHANGED <<streamRest, llm, llm_streaming, generation_count, gen_pc, service>>

\* The service's stream ends: the sources event is yielded.
ServiceEnd ==
    /\ gen_pc = "streaming"
    /\ chunks_left = 0
    /\ service' = "finished"
    /\ events' = Append(events, "sources")
    /\ gen_pc' = "at_sources"
    /\ UNCHANGED <<streamRest, llm, llm_streaming, generation_count, chunks_left>>

\* The service's stream ends, but formatting or serialising the sources
\* raises inside the try block: the except clause yields the error event.
SourcesFail ==
    /\ gen_pc = "streaming"
    /\ chunks_left = 0
    /\ service' = "finished"
    /\ events' = Append(events, "error")
    /\ gen_pc' = "at_error"
    /\ UNCHANGED <<streamRest, llm, llm_streaming, generation_count, chunks_left>>

\* A service failure that is raised to the consumer instead of being
\* reported (used to test the stream properties).
ServiceFailRaises ==
    /\ gen_pc = "streaming"
    /\ service' = "failed"
    /\ gen_pc' = "raised"
    /\ UNCHANGED <<streamRest, llm, llm_streaming, generation_count, events, chunks_left>>
\* A service failure that is reported but does not end the stream (used to
\* test the ordering property).
ServiceFailContinues ==
    /\ gen_pc = "streaming"
    /\ events' = Append(events, "error")
    /\ UNCHANGED <<streamRest, llm, llm_streaming, generation_count, gen_pc,
                   chunks_left, service>>
\* The service fails, at any point of its stream: the except clause yields
\* the error event.
ServiceFail ==
    /\ gen_pc = "streaming"
    /\ service' = "failed"
    /\ events' = Append(events, "error")
    /\ gen_pc' = "at_error"
    /\ UNCHANGED <<streamRest, llm, llm_streaming, generation_count, chunks_left>>

\* The consumer asks for the next event after sources: [DONE] is yielded.
YieldDone ==
    /\ gen_pc = "at_sources"
    /\ events' = Append(events, "done")
    /\ gen_pc' = "at_done"
    /\ UNCHANGED <<streamRest, llm, llm_streaming, generation_count, chunks_left, service>>

\* The consumer asks for the next event after the last one: the generator
\* returns, after counting the generation when it got to [DONE].
StreamFinish ==
    /\ gen_pc \in {"at_done", "at_error"}
    /\ generation_count' =
          (IF gen_pc = "at_done" THEN generation_count + 1 ELSE generation_count)
    /\ gen_pc' = "ended"
    /\ UNCHANGED <<streamRest, llm, llm_streaming, events, chunks_left, service>>

\* The consumer stops consuming and closes the generator.
StreamClose ==
    /\ gen_pc \in {"streaming", "at_sources", "at_done", "at_error"}
    /\ gen_pc' = "closed"
    /\ UNCHANGED <<streamRest, llm, llm_streaming, generation_count, events,
                   chunks_left, service>>

\* The steps the generator takes when the service answers and the consumer
\* keeps asking.
StreamStep ==
    ServiceChunk \/ ServiceEnd \/ SourcesFail \/ ServiceFail \/ YieldDone \/ StreamFinish

StreamNext ==
    \/ GeneratorInitialize
    \/ StreamStart
    \/ ServiceChunk
    \/ ServiceEnd
    \/ SourcesFail
    \/ ServiceFail
    \/ YieldDone
    \/ StreamFinish
    \/ StreamClose

StreamSpec == StreamInit /\ [][StreamNext]_vars
\* The service answers every request (with a chunk, its end or a failure)
\* and the consumer, unless it closes the stream, keeps asking.
FairStreamSpec == StreamSpec /\ WF_vars(StreamStep)

\* ================================================= properties: the stream
\* s is k content events followed by `tail`.
ContentThen(s, k, tail) ==
    /\ Len(s) = k + Len(tail)
    /\ \A i \in 1..k : s[i] = "content"
    /\ \A i \in 1..Len(tail) : s[k + i] = tail[i]
\* A whole event sequence, and the beginning of one.
CompleteStream(s) ==
    \E k \in 0..Len(s) : \E tail \in {<<"sources", "done">>, <<"error">>} :
        ContentThen(s, k, tail)
StreamPrefix(s) ==
    \E k \in 0..Len(s) :
        \E tail \in {<<>>, <<"sources">>, <<"sources", "done">>, <<"error">>} :
            ContentThen(s, k, tail)

\* C2: the events generate_stream yields are, in order, zero or more content
\* events, then one sources event, then one done event; or, on failure, zero
\* or more content events and one error event after which nothing follows.
C2_StreamEventsOrdered ==
    /\ StreamPrefix(events)
    /\ gen_pc = "ended" => CompleteStream(events)
    /\ gen_pc = "at_done" => CompleteStream(events)
    /\ gen_pc = "at_error" => CompleteStream(events)
\* A stream that ended normally after content, and one that failed after
\* content.
C2_Witness ==
    /\ gen_pc = "ended"
    /\ events = <<"content", "content", "sources", "done">>
    /\ generation_count = 2

\* C3: a failure of the generation service is not raised to the consumer:
\* the error event is the stream's last event; and every stream the consumer
\* keeps consuming ends, after done or after error.
C3_ServiceFailureEndsStreamWithError ==
    /\ [](service = "failed" =>
             /\ gen_pc \in {"at_error", "ended", "closed"}
             /\ events # <<>> /\ events[Len(events)] = "error")
    /\ (gen_pc = "streaming") ~>
          \/ gen_pc = "closed"
          \/ /\ gen_pc = "ended"
             /\ events # <<>> /\ events[Len(events)] \in {"done", "error"}
\* The service failed between two content chunks and the stream has ended.
C3_Witness ==
    /\ service = "failed"
    /\ gen_pc = "ended"
    /\ events = <<"content", "error">>
    /\ chunks_left = 1


\* ============================================ properties: the orchestrator
PipelineOps == {"load_pdf", "load_text", "query", "query_stream", "clear_collection"}
\* A text is blank when every character of it is whitespace.
Blank(s) == \A i \in 1..Len(s) : s[i] = " "

\* C1: a load_pdf, load_text, query, query_stream or clear_collection made
\* while initialize() has not completed successfully fails with the usage
\* error, invokes no component and changes no state.
C1_UninitializedCallsRejected ==
    [][(last'.op \in PipelineOps /\ ~initialized)
        => /\ last'.outcome = "NotInitialized"
           /\ last'.calls = {}
           /\ UNCHANGED <<store, kw_documents, total_documents, queries,
                          stage_timers, rerank_count, generation_count,
                          compVars, initialized>>]_vars
\* A query refused after an initialize() that raised part-way through.
C1_Witness ==
    /\ last.op = "query"
    /\ last.outcome = "NotInitialized"
    /\ ~initialized
    /\ vector_store /\ ~llm

\* C6: a query() with a non-blank question that returns normally carries the
\* metrics (one latency per executed stage) and has been recorded once in the
\* metrics history, whatever the retrieval returned (stated for a pipeline
\* whose metrics are enabled).
C6_QueryReturnsAndRecordsMetrics ==
    [][(/\ last'.op = "query"
        /\ last'.outcome = "ok"
        /\ ~Blank(last'.arg)
        /\ config.enable_metrics)
        => /\ last'.result.has_metrics
           /\ Len(last'.result.stages) >= 1
           /\ queries' = Append(queries, queries'[Len(queries')])
           /\ queries'[Len(queries')].stages = last'.result.stages]_vars

\* C7: a blank question to query or query_stream, or blank text to
\* load_text, is rejected before any external call (with the input error on an
\* initialized pipeline, with the usage error before that): no service is
\* invoked and store, keyword index, metrics history and timers are unchanged.
C7_BlankInputRejected ==
    [][(last'.op \in {"query", "query_stream", "load_text"} /\ Blank(last'.arg))
        => /\ last'.outcome = (IF initialized THEN "ValueError" ELSE "NotInitialized")
           /\ last'.calls = {}
           /\ UNCHANGED <<store, kw_documents, total_documents, queries,
                          stage_timers, rerank_count, generation_count>>]_vars
\* Whitespace-only text refused by load_text on an initialized pipeline that
\* already holds a document.
C7_Witness ==
    /\ last.op = "load_text"
    /\ last.arg = <<" ">>
    /\ last.outcome = "ValueError"
    /\ initialized
    /\ store # <<>>

\* What the configuration can be invalid in.
UnknownModelOrNoKey(cfg) ==
    \/ ~cfg.nvidia_api_key
    \/ cfg.embedding_model \notin EMBEDDING_MODELS
    \/ cfg.reranking_model \notin RERANKING_MODELS
    \/ cfg.llm_model \notin LLM_MODELS
InvalidWeight(cfg) ==
    \/ cfg.semantic_weight < 0
    \/ cfg.keyword_weight < 0
    \/ cfg.semantic_weight + cfg.keyword_weight # 10
ConstructionRefused ==
    /\ last'.outcome = "ValueError"
    /\ last'.calls = {}
    /\ ~pipeline'
    /\ UNCHANGED <<compVars, initialized>>

C9_SearchFailurePropagates ==
    [][(last'.op = "query" /\ "similarity_search_failed" \in last'.calls)
        => /\ last'.outcome = "StoreError"
           /\ last'.result = <<>>
           /\ last'.calls \cap {"reranker", "reranking_service", "generator",
                                "generation_service"} = {}
           /\ UNCHANGED <<rerank_count, generation_count, queries>>]_vars
\* The search failed on a collection that holds a document.
C9_Witness ==
    /\ last.op = "query"
    /\ "similarity_search_failed" \in last.calls
    /\ last.outcome = "StoreError"
    /\ store # <<>>
    /\ kw_documents # <<>>

\* C10: after initialize() and after every ingestion that reports success,
\* the keyword index holds exactly the documents of the vector store.
C10_KeywordIndexMirrorsStore ==
    [][(last'.op \in {"initialize", "load_pdf", "load_text"} /\ last'.outcome = "ok")
        => Range(kw_documents') = Range(store')]_vars


\* ===================================================== the keyword searcher
\* KeywordSearcher on its own. A text is a sequence of characters; the texts
\* of the model are words of one letter, upper or lower case, joined by
\* single spaces.
Words == {<<"a">>, <<"B">>}
RECURSIVE JoinWords(_)
JoinWords(ws) ==
    IF ws = <<>> THEN <<>>
    ELSE IF Len(ws) = 1 THEN ws[1]
    ELSE ws[1] \o <<" ">> \o JoinWords(Tail(ws))
KwTexts == {JoinWords(ws) : ws \in SeqsUpTo(Words, MaxWords)}
Corpora == SeqsUpTo(KwTexts, MaxCorpus)
\* The top_k arguments given to search().
KwTopKs == 0..MaxCorpus

\* str.lower() and the character class [a-z0-9] on the model's characters.
Lower(c) == IF c = "A" THEN "a" ELSE IF c = "B" THEN "b" ELSE c
IsTokenChar(c) == c \in {"a", "b"}

\* KeywordSearcher._tokenize: re.findall(r"\b[a-z0-9]+\b", text.lower()), the
\* maximal runs of token characters, in order. (Every character of the model
\* that is no token character is a separator.)
RECURSIVE TokenizeFrom(_, _, _)
TokenizeFrom(text, run, tokens) ==
    LET closed == IF run = <<>> THEN tokens ELSE Append(tokens, run)
    IN IF text = <<>> THEN closed
       ELSE LET c == Lower(Head(text))
            IN IF IsTokenChar(c) THEN TokenizeFrom(Tail(text), Append(run, c), tokens)
               ELSE TokenizeFrom(Tail(text), <<>>, closed)
Tokenize(text) == TokenizeFrom(text, <<>>, <<>>)

\* collections.Counter(tokens).
Counter(tokens) ==
    [t \in Range(tokens) |-> Cardinality({i \in 1..Len(tokens) : tokens[i] = t})]
\* sum(tf.values()).
RECURSIVE SumOver(_, _)
SumOver(f, S) ==
    IF S = {} THEN 0
    ELSE LET x == CHOOSE y \in S : TRUE IN f[x] + SumOver(f, S \ {x})

\* math.log((n_docs + 1) / (freq + 1)) + 1 in thousandths, rounded, for the
\* corpus sizes of the model (IdfMilli[n_docs][freq]).
IdfMilli ==
    <<  <<1000>>,
        <<1405, 1000>>,
        <<1693, 1288, 1000>>,
        <<1916, 1511, 1223, 1000>> >>
\* The default of self._idf.get(term, 1.0), in thousandths.
IdfDefault == 1000 * 1
\* Scores are kept as integers: thousandths, times ScoreScale (a multiple of
\* every document length of the model).
ScoreScale == 3 * 4

\* KeywordSearcher.index(documents): the three fields after the call.
IndexTermFreqs(documents) ==
    [i \in 1..Len(documents) |-> Counter(Tokenize(documents[i]))]
IndexIdf(documents) ==
    LET terms == UNION {Range(Tokenize(documents[i])) : i \in 1..Len(documents)}
        doc_freq(t) == Cardinality({i \in 1..Len(documents) :
                                       t \in Range(Tokenize(documents[i]))})
    IN [t \in terms |-> IdfMilli[Len(documents)][doc_freq(t)]]

\* The score search() gives a document with term frequencies tf: the sum over
\* the query tokens, as listed, of (tf[term] / doc_len) * idf(term).
RECURSIVE KwScore(_, _, _)
KwScore(tf, idf, query_tokens) ==
    IF query_tokens = <<>> THEN 0
    ELSE LET term == Head(query_tokens)
             doc_len == IF SumOver(tf, DOMAIN tf) = 0 THEN 1 ELSE SumOver(tf, DOMAIN tf)
             part == IF term \in DOMAIN tf
                     THEN (tf[term] * (ScoreScale \div doc_len))
                          * (IF term \in DOMAIN idf THEN idf[term] ELSE IdfDefault)
                     ELSE 0
         IN part + KwScore(tf, idf, Tail(query_tokens))

\* A ranking that keeps the corpus order (used to test the ordering property).
RankScoresUnsorted(scores) == [i \in 1..Len(scores) |-> <<i, scores[i]>>]
\* sorted(enumerate(scores), key=lambda x: x[1], reverse=True): (index, score)
\* pairs by descending score, equal scores in index order.
RankScores(scores) == SortDesc([i \in 1..Len(scores) |-> <<i, scores[i]>>])

\* The ranked entries whatever their score.
AllEntries(documents, ranked) ==
    [i \in 1..Len(ranked) |-> <<documents[ranked[i][1]], ranked[i][2]>>]
\* The list comprehension of search(): the ranked entries with a positive
\* score, as (document, score) pairs.
RECURSIVE PositiveEntries(_, _)
PositiveEntries(documents, ranked) ==
    IF ranked = <<>> THEN <<>>
    ELSE IF Head(ranked)[2] > 0
    THEN <<<<documents[Head(ranked)[1]], Head(ranked)[2]>>>>
         \o PositiveEntries(documents, Tail(ranked))
    ELSE PositiveEntries(documents, Tail(ranked))

\* KeywordSearcher.search(query, top_k) over the three fields.
KwSearch(documents, term_freqs, idf, query, top_k) ==
    IF documents = <<>> THEN <<>>
    ELSE IF Tokenize(query) = <<>> THEN <<>>
    ELSE LET scores == [i \in 1..Len(term_freqs) |->
                           KwScore(term_freqs[i], idf, Tokenize(query))]
         IN PositiveEntries(documents, PySlice(RankScores(scores), top_k))

KeywordInit ==
    /\ pipeline = FALSE
    /\ config = DefaultConfig
    /\ initialized = FALSE
    /\ emb_client = FALSE
    /\ vector_store = FALSE
    /\ rr_client = FALSE
    /\ llm = FALSE
    /\ llm_streaming = FALSE
    /\ store = <<>>
    /\ kw_documents = <<>>
    /\ total_documents = 0
    /\ stage_timers = {}
    /\ queries = <<>>
    /\ rerank_count = 0
    /\ generation_count = 0
    /\ last = NoCall
    /\ gen_pc = "idle"
    /\ events = <<>>
    /\ chunks_left = 0
    /\ service = "idle"
    /\ UnitInit

kwRest ==
    <<pipeline, config, initialized, compVars, store, total_documents, metricVars,
      countVars, streamVars, threads, timer_values, rateVars, timer_history>>

\* index(): self._doc_term_freqs = [], before the loop that appends.
KeptTermFreqs(term_freqs) == term_freqs
ResetTermFreqs(term_freqs) == <<>>
\* KeywordSearcher.index(documents). The record of the call also keeps the
\* documents that were indexed before it.
KeywordIndex ==
    \E documents \in Corpora :
        /\ kw_documents' = documents
        /\ kw_term_freqs' = ResetTermFreqs(kw_term_freqs) \o IndexTermFreqs(documents)
        /\ kw_idf' = IndexIdf(documents)
        /\ last' = Call("index", documents, "ok", {}, <<>>) @@ ("replaced" :> kw_documents)
        /\ UNCHANGED kwRest

\* KeywordSearcher.search(query, top_k).
KeywordSearch ==
    \E query \in KwTexts, top_k \in KwTopKs :
        /\ last' = [Call("search", query, "ok", {},
                         KwSearch(kw_documents, kw_term_freqs, kw_idf, query, top_k))
                    EXCEPT !.top = <<top_k>>]
        /\ UNCHANGED <<kwRest, kw_documents, kwVars>>

KeywordNext == KeywordIndex \/ KeywordSearch

KeywordSpec == KeywordInit /\ [][KeywordNext]_vars


\* ======================================== properties: the keyword searcher
\* xs occurs in ys as a subsequence (same relative order).
RECURSIVE IsSubsequence(_, _)
IsSubsequence(xs, ys) ==
    IF xs = <<>> THEN TRUE
    ELSE IF ys = <<>> THEN FALSE
    ELSE IF Head(xs) = Head(ys) THEN IsSubsequence(Tail(xs), Tail(ys))
    ELSE IsSubsequence(xs, Tail(ys))
\* The documents of a result that carry score sc, in result order.
RECURSIVE DocsWithScore(_, _)
DocsWithScore(result, sc) ==
    IF result = <<>> THEN <<>>
    ELSE (IF Head(result)[2] = sc THEN <<Head(result)[1]>> ELSE <<>>)
         \o DocsWithScore(Tail(result), sc)

\* C20: the list keyword search returns is sorted by non-increasing score,
\* and returned documents of equal score appear in their corpus order.
C20_KeywordResultsSortedStable ==
    last.op = "search"
        => /\ \A i \in 1..Len(last.result) - 1 :
                 last.result[i][2] >= last.result[i + 1][2]
           /\ \A i \in 1..Len(last.result) :
                 IsSubsequence(DocsWithScore(last.result, last.result[i][2]),
                               kw_documents)
\* A search that ranks the second document of the corpus above the first.
C20_Witness ==
    /\ last.op = "search"
    /\ Len(kw_documents) = 2
    /\ Len(last.result) = 2
    /\ last.result[1][1] = kw_documents[2]
    /\ last.result[2][1] = kw_documents[1]
    /\ last.result[1][2] > last.result[2][2]


\* ========================================= the retriever under concurrency
\* HybridRetriever.add_documents called by two threads while a third calls
\* KeywordSearcher.search. The code takes no lock, so the threads interleave
\* between any two accesses of a shared attribute; a step of the model is one
\* such access (the loops of search() read each field once). The collection's
\* own operations (add, count, get) are atomic.
Writers == {"w1", "w2"}
Reader == "r"
\* The one-document chunk lists the writers ingest.
IngestChunks == {<<JoinWords(<<w>>)>> : w \in Words}
\* The queries the reader searches for.
SearchQueries == {JoinWords(<<w>>) : w \in Words}
\* The collections the threads start from.
InitialStores == {<<>>, <<JoinWords(<< <<"a">> >>)>>}

IdleWriter ==
    [pc |-> "idle", chunks |-> <<>>, tmp |-> 0, count |-> 0, docs |-> <<>>, i |-> 0]
IdleReader ==
    [pc |-> "idle", query |-> <<>>, term_freqs |-> <<>>, idf |-> <<>>,
     documents |-> <<>>, outcome |-> "none", result |-> <<>>]

ConcurrentInit ==
    /\ pipeline = FALSE
    /\ config = DefaultConfig
    /\ initialized = FALSE
    /\ emb_client = FALSE
    /\ vector_store = TRUE
    /\ rr_client = FALSE
    /\ llm = FALSE
    /\ llm_streaming = FALSE
    /\ store \in InitialStores
    /\ kw_documents = store
    /\ kw_term_freqs = IndexTermFreqs(store)
    /\ kw_idf = IndexIdf(store)
    /\ total_documents = Len(store)
    /\ stage_timers = {}
    /\ queries = <<>>
    /\ rerank_count = 0
    /\ generation_count = 0
    /\ last = NoCall
    /\ gen_pc = "idle"
    /\ events = <<>>
    /\ chunks_left = 0
    /\ service = "idle"
    /\ timer_values = <<>>
    /\ embedder = <<>>
    /\ clock = 0
    /\ embed_requests = <<>>
    /\ timer_history = <<>>
    /\ threads = [t \in Writers \cup {Reader} |->
                    IF t = Reader THEN IdleReader ELSE IdleWriter]

concRest ==
    <<pipeline, config, initialized, compVars, metricVars, countVars, last, streamVars,
      timer_values, rateVars, timer_history>>
At(t, pc) == threads[t].pc = pc
Becomes(t, th) == threads' = [threads EXCEPT ![t] = th]

\* add_documents(chunks) is called.
WriterCall(w) ==
    /\ At(w, "idle")
    /\ \E chunks \in IngestChunks :
          Becomes(w, [threads[w] EXCEPT !.pc = "add", !.chunks = chunks])
    /\ UNCHANGED <<concRest, storeVars, kwVars>>
\* self._vector_store.add_documents(documents)
WriterAdd(w) ==
    /\ At(w, "add")
    /\ store' = store \o threads[w].chunks
    /\ Becomes(w, [threads[w] EXCEPT !.pc = "total_read"])
    /\ UNCHANGED <<concRest, kw_documents, total_documents, kwVars>>
\* self._total_documents += len(documents): the read ...
WriterTotalRead(w) ==
    /\ At(w, "total_read")
    /\ Becomes(w, [threads[w] EXCEPT !.pc = "total_write", !.tmp = total_documents])
    /\ UNCHANGED <<concRest, storeVars, kwVars>>
\* ... and the write.
WriterTotalWrite(w) ==
    /\ At(w, "total_write")
    /\ total_documents' = threads[w].tmp + Len(threads[w].chunks)
    /\ Becomes(w, [threads[w] EXCEPT !.pc = "count"])
    /\ UNCHANGED <<concRest, store, kw_documents, kwVars>>
\* _rebuild_keyword_index: count = collection.count()
WriterCount(w) ==
    /\ At(w, "count")
    /\ Becomes(w, [threads[w] EXCEPT !.pc = "set_total", !.count = Len(store)])
    /\ UNCHANGED <<concRest, storeVars, kwVars>>
\* self._total_documents = count
WriterSetTotal(w) ==
    /\ At(w, "set_total")
    /\ total_documents' = threads[w].count
    /\ Becomes(w, [threads[w] EXCEPT
                      !.pc = IF threads[w].count > 0 THEN "get" ELSE "done"])
    /\ UNCHANGED <<concRest, store, kw_documents, kwVars>>
\* results = collection.get(limit=min(count, 10000), ...)
WriterGet(w) ==
    /\ At(w, "get")
    /\ Becomes(w, [threads[w] EXCEPT
                      !.pc = "index_documents",
                      !.docs = PySlice(store, Min(threads[w].count, FetchLimit))])
    /\ UNCHANGED <<concRest, storeVars, kwVars>>
\* index(): self._documents = documents
WriterIndexDocuments(w) ==
    /\ At(w, "index_documents")
    /\ kw_documents' = threads[w].docs
    /\ Becomes(w, [threads[w] EXCEPT !.pc = "index_reset"])
    /\ UNCHANGED <<concRest, store, total_documents, kwVars>>
\* index(): self._doc_term_freqs = []
WriterIndexReset(w) ==
    /\ At(w, "index_reset")
    /\ kw_term_freqs' = <<>>
    /\ Becomes(w, [threads[w] EXCEPT !.pc = "index_loop", !.i = 1])
    /\ UNCHANGED <<concRest, storeVars, kw_idf>>
\* index(): self._doc_term_freqs.append(tf), for each document
WriterIndexAppend(w) ==
    /\ At(w, "index_loop")
    /\ threads[w].i <= Len(threads[w].docs)
    /\ kw_term_freqs' =
          Append(kw_term_freqs, Counter(Tokenize(threads[w].docs[threads[w].i])))
    /\ Becomes(w, [threads[w] EXCEPT !.i = @ + 1])
    /\ UNCHANGED <<concRest, storeVars, kw_idf>>
\* index(): self._idf = {...}, from the documents this call was given;
\* add_documents returns.
WriterIndexIdf(w) ==
    /\ At(w, "index_loop")
    /\ threads[w].i > Len(threads[w].docs)
    /\ kw_idf' = IndexIdf(threads[w].docs)
    /\ Becomes(w, [threads[w] EXCEPT !.pc = "done"])
    /\ UNCHANGED <<concRest, storeVars, kw_term_freqs>>

\* search(query, top_k) is called.
ReaderCall ==
    /\ At(Reader, "idle")
    /\ \E query \in SearchQueries : Becomes(Reader, [IdleReader EXCEPT !.pc = "check", !.query = query])
    /\ UNCHANGED <<concRest, storeVars, kwVars>>
\* if not self._documents: return []; if not query_tokens: return []
ReaderCheck ==
    /\ At(Reader, "check")
    /\ Becomes(Reader,
               IF kw_documents = <<>> \/ Tokenize(threads[Reader].query) = <<>>
               THEN [threads[Reader] EXCEPT !.pc = "done", !.outcome = "empty"]
               ELSE [threads[Reader] EXCEPT !.pc = "term_freqs"])
    /\ UNCHANGED <<concRest, storeVars, kwVars>>
\* for tf in self._doc_term_freqs
ReaderTermFreqs ==
    /\ At(Reader, "term_freqs")
    /\ Becomes(Reader, [threads[Reader] EXCEPT !.pc = "idf", !.term_freqs = kw_term_freqs])
    /\ UNCHANGED <<concRest, storeVars, kwVars>>
\* self._idf.get(term, 1.0)
ReaderIdf ==
    /\ At(Reader, "idf")
    /\ Becomes(Reader, [threads[Reader] EXCEPT !.pc = "documents", !.idf = kw_idf])
    /\ UNCHANGED <<concRest, storeVars, kwVars>>
\* self._documents[idx] for the ranked entries: the result, or IndexError.
ReaderDocuments ==
    /\ At(Reader, "documents")
    /\ LET r == threads[Reader]
           scores == [i \in 1..Len(r.term_freqs) |->
                         KwScore(r.term_freqs[i], r.idf, Tokenize(r.query))]
           ranked == PySlice(RankScores(scores), DefaultTopK)
           out_of_range == \E j \in 1..Len(ranked) :
                               ranked[j][2] > 0 /\ ranked[j][1] > Len(kw_documents)
       IN Becomes(Reader,
                  IF out_of_range
                  THEN [r EXCEPT !.pc = "done", !.documents = kw_documents,
                                 !.outcome = "IndexError"]
                  ELSE [r EXCEPT !.pc = "done", !.documents = kw_documents,
                                 !.outcome = "ok",
                                 !.result = PositiveEntries(kw_documents, ranked)])
    /\ UNCHANGED <<concRest, storeVars, kwVars>>

ConcurrentNext ==
    \/ \E w \in Writers : WriterCall(w)
    \/ \E w \in Writers : WriterAdd(w)
    \/ \E w \in Writers : WriterTotalRead(w)
    \/ \E w \in Writers : WriterTotalWrite(w)
    \/ \E w \in Writers : WriterCount(w)
    \/ \E w \in Writers : WriterSetTotal(w)
    \/ \E w \in Writers : WriterGet(w)
    \/ \E w \in Writers : WriterIndexDocuments(w)
    \/ \E w \in Writers : WriterIndexReset(w)
    \/ \E w \in Writers : WriterIndexAppend(w)
    \/ \E w \in Writers : WriterIndexIdf(w)
    \/ ReaderCall
    \/ ReaderCheck
    \/ ReaderTermFreqs
    \/ ReaderIdf
    \/ ReaderDocuments

ConcurrentSpec == ConcurrentInit /\ [][ConcurrentNext]_vars

\* ------------------------------------------- properties under concurrency
IsSnapshot(documents, term_freqs, idf) ==
    /\ Len(term_freqs) = Len(documents)
    /\ term_freqs = IndexTermFreqs(documents)
    /\ idf = IndexIdf(documents)
Searching == threads[Reader].pc \in {"check", "term_freqs", "idf", "documents"}
Finished(w) == threads[w].pc = "done"

\* C11: at every point at which a running keyword search can read the index,
\* the document list, the per-document term frequencies and the IDF table are
\* the index of one corpus: the search never sees a partly rebuilt index.
C11_SearchSeesOneSnapshot ==
    Searching => IsSnapshot(kw_documents, kw_term_freqs, kw_idf)

\* C12: once two concurrent ingestions have both finished, the keyword index
\* holds exactly one term-frequency entry per indexed document and the
\* reported total equals the number of documents in the store, as it would
\* if their writes had been serialized.
C12_ConcurrentIngestionsConsistent ==
    (\A w \in Writers : Finished(w))
        => /\ Len(kw_term_freqs) = Len(kw_documents)
           /\ total_documents = Len(store)


\* ======================================== RAGPipeline.query under concurrency
\* Two threads call query() on one initialized pipeline. They share the one
\* RAGMetrics object, whose _stage_timers dict is keyed by the stage name. A
\* timer's value is a timestamp; the model keeps, in its place, the caller
\* whose start_timer wrote it, which is what decides whose elapsed time a
\* metric measures. A step is one access of the shared dict or one stage's
\* work (retrieve, rerank, generate), whose outcome is drawn.
QueryThreads == {"q1", "q2"}
QueryStages == <<"retrieval", "reranking", "generation">>
IdleQuery ==
    [pc |-> "idle", stage |-> 1, retrieved |-> TRUE, start |-> "none",
     stages |-> <<>>, stopped |-> 0, outcome |-> "none"]

TimerInit ==
    /\ pipeline = TRUE
    /\ config \in {[DefaultConfig EXCEPT !.enable_metrics = b] : b \in BOOLEAN}
    /\ initialized = TRUE
    /\ emb_client = TRUE
    /\ vector_store = TRUE
    /\ rr_client = TRUE
    /\ llm = TRUE
    /\ llm_streaming = TRUE
    /\ store = <<>>
    /\ kw_documents = <<>>
    /\ total_documents = 0
    /\ stage_timers = {}
    /\ timer_values = <<>>
    /\ queries = <<>>
    /\ rerank_count = 0
    /\ generation_count = 0
    /\ last = NoCall
    /\ gen_pc = "idle"
    /\ events = <<>>
    /\ chunks_left = 0
    /\ service = "idle"
    /\ kw_term_freqs = <<>>
    /\ kw_idf = <<>>
    /\ embedder = <<>>
    /\ clock = 0
    /\ embed_requests = <<>>
    /\ timer_history = <<>>
    /\ threads = [q \in QueryThreads |-> IdleQuery]

timerRest ==
    <<pipeline, config, initialized, compVars, storeVars, countVars, last, streamVars, kwVars,
      rateVars, timer_history>>
StageOf(q) == QueryStages[threads[q].stage]
\* The caller's position after stop_timer has returned and the metric, if
\* any, was appended: the early return of an empty retrieval, the next stage,
\* or record_query.
AfterStop(th) ==
    IF th.stage = 1 /\ ~th.retrieved
    THEN [th EXCEPT !.pc = "done", !.outcome = "nothing_found", !.stopped = @ + 1]
    ELSE IF th.stage < Len(QueryStages)
    THEN [th EXCEPT !.pc = "start", !.stage = @ + 1, !.stopped = @ + 1]
    ELSE [th EXCEPT !.pc = "record", !.stopped = @ + 1]
\* self._stage_timers[stage] = time.time(), by caller q
SetTimer(values, stage, q) ==
    [s \in DOMAIN values \cup {stage} |-> IF s = stage THEN q ELSE values[s]]
\* del self._stage_timers[stage]
DelTimer(values, stage) == [s \in DOMAIN values \ {stage} |-> values[s]]

\* query(question) is called with a non-blank question.
QueryCall(q) ==
    /\ At(q, "idle")
    /\ Becomes(q, [threads[q] EXCEPT !.pc = "start"])
    /\ UNCHANGED <<timerRest, metricVars, timer_values>>
\* self.metrics.start_timer(stage)
QueryStartTimer(q) ==
    /\ At(q, "start")
    /\ stage_timers' = StartTimer(stage_timers, StageOf(q))
    /\ timer_values' = IF config.enable_metrics
                       THEN SetTimer(timer_values, StageOf(q), q)
                       ELSE timer_values
    /\ Becomes(q, [threads[q] EXCEPT !.pc = "work"])
    /\ UNCHANGED <<timerRest, queries>>
\* retrieve / rerank / generate: returns (retrieve possibly with nothing) or raises.
QueryStageWork(q) ==
    /\ At(q, "work")
    /\ \E outcome \in {"ok", "empty", "raise"} :
          /\ outcome = "empty" => threads[q].stage = 1
          /\ Becomes(q, IF outcome = "raise"
                        THEN [threads[q] EXCEPT !.pc = "done", !.outcome = "raised"]
                        ELSE [threads[q] EXCEPT !.pc = "stop_check",
                                                !.retrieved = (outcome = "ok")])
    /\ UNCHANGED <<timerRest, metricVars, timer_values>>
\* stop_timer: if not self.enabled or stage not in self._stage_timers: return None
QueryStopCheck(q) ==
    /\ At(q, "stop_check")
    /\ Becomes(q, IF StopTimerReturns(stage_timers, StageOf(q))
                  THEN [threads[q] EXCEPT !.pc = "stop_read"]
                  ELSE AfterStop(threads[q]))
    /\ UNCHANGED <<timerRest, metricVars, timer_values>>
\* stop_timer: elapsed_ms = (time.time() - self._stage_timers[stage]) * 1000
QueryStopRead(q) ==
    /\ At(q, "stop_read")
    /\ Becomes(q, IF StageOf(q) \in stage_timers
                  THEN [threads[q] EXCEPT !.pc = "stop_del",
                                          !.start = timer_values[StageOf(q)]]
                  ELSE [threads[q] EXCEPT !.pc = "done", !.outcome = "KeyError"])
    /\ UNCHANGED <<timerRest, metricVars, timer_values>>
\* stop_timer: del self._stage_timers[stage]; return metric; stages.append(metric)
QueryStopDel(q) ==
    /\ At(q, "stop_del")
    /\ IF StageOf(q) \in stage_timers
       THEN /\ stage_timers' = stage_timers \ {StageOf(q)}
            /\ timer_values' = DelTimer(timer_values, StageOf(q))
            /\ Becomes(q, AfterStop([threads[q] EXCEPT
                             !.stages = Append(@, [stage |-> StageOf(q),
                                                   since |-> threads[q].start])]))
       ELSE /\ Becomes(q, [threads[q] EXCEPT !.pc = "done", !.outcome = "KeyError"])
            /\ UNCHANGED <<stage_timers, timer_values>>
    /\ UNCHANGED <<timerRest, queries>>
\* self.metrics.record_query(stages=stages, ...); query returns.
QueryRecord(q) ==
    /\ At(q, "record")
    /\ queries' = RecordQuery(queries, threads[q].stages, TRUE)
    /\ Becomes(q, [threads[q] EXCEPT !.pc = "done", !.outcome = "ok"])
    /\ UNCHANGED <<timerRest, stage_timers, timer_values>>

TimerNext ==
    \/ \E q \in QueryThreads : QueryCall(q)
    \/ \E q \in QueryThreads : QueryStartTimer(q)
    \/ \E q \in QueryThreads : QueryStageWork(q)
    \/ \E q \in QueryThreads : QueryStopCheck(q)
    \/ \E q \in QueryThreads : QueryStopRead(q)
    \/ \E q \in QueryThreads : QueryStopDel(q)
    \/ \E q \in QueryThreads : QueryRecord(q)

TimerSpec == TimerInit /\ [][TimerNext]_vars

\* C13: with metrics enabled, each of two concurrent queries obtains a stage
\* metric from every stop_timer call it makes, each metric measures from the
\* start_timer call of the same query, and no stop_timer call fails because
\* the other query removed the timer.
C13_ConcurrentQueriesOwnTheirTimers ==
    config.enable_metrics
        => \A q \in QueryThreads :
              /\ threads[q].outcome # "KeyError"
              /\ Len(threads[q].stages) = threads[q].stopped
              /\ \A i \in 1..Len(threads[q].stages) : threads[q].stages[i].since = q


\* ================================================= the embedding rate budget
\* NVIDIAEmbedder on an initialized retriever. Embedding requests reach the
\* service through the wrapper's embed_query / embed_documents, which call
\* _rate_limit first, and through the vector store, which HybridRetriever
\* .initialize constructs with embedding_function=self.embedder._client:
\* the store embeds the chunks of an ingestion and the question of a query
\* with that client directly. time.sleep is a jump of the clock.
MaxRpm == 2
MaxTicks == 3
MaxRequests == 3
MaxBatches == 2
Window == 60
TickStep == Window \div 2
ClockEnd == Window + MaxTicks * TickStep

\* _rate_limit(): the embedder and the clock after the call.
RateLimit(e, now) ==
    LET elapsed == now - e.last_request_time
    IN  IF elapsed >= Window
        THEN [e |-> [e EXCEPT !.request_count = 0, !.last_request_time = now], now |-> now]
        ELSE IF e.request_count >= e.rate_limit_rpm
        THEN [e |-> [e EXCEPT !.request_count = 0,
                              !.last_request_time = now + (Window - elapsed)],
              now |-> now + (Window - elapsed)]
        ELSE [e |-> e, now |-> now]
\* self._rate_limit(); self._request_count += 1; self._client.embed_...(...)
RECURSIVE RateLimitedRequests(_, _, _, _, _)
RateLimitedRequests(e, now, requests, by, n) ==
    IF n = 0 THEN [e |-> e, now |-> now, requests |-> requests]
    ELSE LET r == RateLimit(e, now)
         IN  RateLimitedRequests([r.e EXCEPT !.request_count = @ + 1], r.now,
                                 Append(requests, [time |-> r.now, by |-> by]), by, n - 1)

RateInit ==
    /\ pipeline = TRUE
    /\ config = DefaultConfig
    /\ initialized = TRUE
    /\ emb_client = TRUE
    /\ vector_store = TRUE
    /\ rr_client = TRUE
    /\ llm = TRUE
    /\ llm_streaming = TRUE
    /\ store = <<>>
    /\ kw_documents = <<>>
    /\ total_documents = 0
    /\ stage_timers = {}
    /\ queries = <<>>
    /\ rerank_count = 0
    /\ generation_count = 0
    /\ last = NoCall
    /\ gen_pc = "idle"
    /\ events = <<>>
    /\ chunks_left = 0
    /\ service = "idle"
    /\ kw_term_freqs = <<>>
    /\ kw_idf = <<>>
    /\ threads = <<>>
    /\ timer_values = <<>>
    /\ \E rpm \in 1..MaxRpm :
          embedder = [rate_limit_rpm |-> rpm, request_count |-> 0, last_request_time |-> 0]
    /\ clock = Window
    /\ embed_requests = <<>>
    /\ timer_history = <<>>

rateRest ==
    <<pipeline, config, initialized, compVars, storeVars, metricVars, countVars, last,
      streamVars, kwVars, threads, timer_values, timer_history>>
\* The clock advances.
Tick ==
    /\ clock + TickStep <= ClockEnd
    /\ clock' = clock + TickStep
    /\ UNCHANGED <<rateRest, embedder, embed_requests>>
\* NVIDIAEmbedder.embed_query(text)
EmbedQuery ==
    /\ Len(embed_requests) < MaxRequests
    /\ LET r == RateLimitedRequests(embedder, clock, embed_requests, "embed_query", 1)
       IN  /\ embedder' = r.e
           /\ clock' = r.now
           /\ embed_requests' = r.requests
    /\ UNCHANGED rateRest
\* NVIDIAEmbedder.embed_documents(texts), texts filling n batches
EmbedDocuments ==
    \E n \in 1..MaxBatches :
        /\ Len(embed_requests) + n <= MaxRequests
        /\ LET r == RateLimitedRequests(embedder, clock, embed_requests, "embed_documents", n)
           IN  /\ embedder' = r.e
               /\ clock' = r.now
               /\ embed_requests' = r.requests
        /\ UNCHANGED rateRest
\* An ingestion: the vector store embeds the chunks with the client it was given.
StoreEmbedsDocuments ==
    /\ Len(embed_requests) < MaxRequests
    /\ embed_requests' = Append(embed_requests, [time |-> clock, by |-> "ingestion"])
    /\ UNCHANGED <<rateRest, embedder, clock>>
\* A query: the vector store embeds the question with the client it was given.
StoreEmbedsQuery ==
    /\ Len(embed_requests) < MaxRequests
    /\ embed_requests' = Append(embed_requests, [time |-> clock, by |-> "query"])
    /\ UNCHANGED <<rateRest, embedder, clock>>

RateNext ==
    \/ Tick
    \/ EmbedQuery
    \/ EmbedDocuments
    \/ StoreEmbedsDocuments
    \/ StoreEmbedsQuery

RateSpec == RateInit /\ [][RateNext]_vars

\* The requests that reached the service since the current rate window began.
SentInWindow ==
    {i \in 1..Len(embed_requests) : embed_requests[i].time >= embedder.last_request_time}

\* C14: every embedding request made for an ingestion or a query is counted
\* against the budget: the requests that reached the embedding service within
\* the current rate window are those the embedder counted, at most
\* rate_limit_rpm of them.
C14_EmbeddingRequestsWithinBudget ==
    /\ Cardinality(SentInWindow) = embedder.request_count
    /\ Cardinality(SentInWindow) <= embedder.rate_limit_rpm


\* -------------------------------------------------- clearing the collection
Cleared == store = <<>> /\ kw_documents = <<>> /\ total_documents = 0
\* Every keyword search the model can make returns the empty list.
KeywordSearchFindsNothing ==
    /\ \A k \in 0..MaxStore + 1 : KeywordResults(kw_documents, k) = {<<>>}
    /\ \A query \in KwTexts, k \in KwTopKs :
          KwSearch(kw_documents, kw_term_freqs, kw_idf, query, k) = <<>>
IngestionCall == {"load_text", "load_pdf"}

\* C15: when clear_collection returns, the collection and the keyword index
\* are empty and the reported total is 0; and as long as no ingestion is
\* called after that, they stay so and every keyword search returns the
\* empty list.
C15_ClearEmptiesStoreAndIndex ==
    [][/\ (last'.op = "clear_collection" /\ last'.outcome = "ok")
            => Cleared' /\ KeywordSearchFindsNothing'
       /\ (Cleared /\ KeywordSearchFindsNothing /\ last'.op \notin IngestionCall)
            => Cleared' /\ KeywordSearchFindsNothing']_vars
\* A clear that returned on a pipeline which had answered a query from
\* ingested documents.
C15_Witness ==
    /\ last.op = "clear_collection" /\ last.outcome = "ok"
    /\ Cleared
    /\ \E i \in 1..Len(queries) : "generation" \in Range(queries[i].stages)


\* ==================================================== the metrics collector
\* RAGMetrics on its own, driven by a caller that makes any sequence of calls.
\* A StageMetric is its stage name and latency, a QueryMetric its total
\* latency, stages, three counts and success flag (the query text, timestamp
\* and error text are left out). Rounded numbers are kept as integers in the
\* unit of their last decimal. timer_history records the calls made, not what
\* the collector stored.
MaxHistory == 3
MaxStages == 1
MaxLatency == 2
MaxRecent == 3
MaxChunks == 1
TimerStages == {"retrieval", "generation"}
Latencies == 1..MaxLatency
StageMetrics == [stage : TimerStages, latency_ms : Latencies]
StageLists == SeqsUpTo(StageMetrics, MaxStages)
CountInputs ==
    {[chunks_retrieved |-> c, chunks_after_rerank |-> c, answer_length |-> c] : c \in 1..MaxChunks}

\* Python's round(num / den) for num >= 0, den > 0: ties go to the even integer.
Round(num, den) ==
    LET q == num \div den
        r == num % den
    IN  IF 2 * r < den THEN q
        ELSE IF 2 * r > den THEN q + 1
        ELSE IF q % 2 = 0 THEN q ELSE q + 1
RECURSIVE SumSeq(_)
SumSeq(s) == IF s = <<>> THEN 0 ELSE Head(s) + SumSeq(Tail(s))
RECURSIVE MinSeq(_)
MinSeq(s) == IF Len(s) = 1 THEN s[1] ELSE Min(Head(s), MinSeq(Tail(s)))
RECURSIVE MaxSeq(_)
MaxSeq(s) == IF Len(s) = 1 THEN s[1] ELSE Max(Head(s), MaxSeq(Tail(s)))
\* Python's seq[start:].
PySliceFrom(s, start) ==
    IF start >= 0 THEN SubSeq(s, Min(start, Len(s)) + 1, Len(s))
    ELSE SubSeq(s, Max(Len(s) + start, 0) + 1, Len(s))

\* record_query: the QueryMetric it builds ...
QueryMetric(stages, counts, success) ==
    IF ~config.enable_metrics
    THEN [total_latency_ms |-> 0, stages |-> <<>>, chunks_retrieved |-> 0,
          chunks_after_rerank |-> 0, answer_length |-> 0, success |-> success]
    ELSE [total_latency_ms |-> SumSeq([i \in 1..Len(stages) |-> stages[i].latency_ms]),
          stages |-> stages, chunks_retrieved |-> counts.chunks_retrieved,
          chunks_after_rerank |-> counts.chunks_after_rerank,
          answer_length |-> counts.answer_length, success |-> success]
\* ... and the history after the call.
StoreQueryAlways(qs, metric) == Append(qs, metric)
StoreQuery(qs, metric) == IF ~config.enable_metrics THEN qs ELSE Append(qs, metric)

\* get_summary: the latencies collected under one stage name, in order.
RECURSIVE StageLatencies(_, _)
StageLatencies(qs, stage) ==
    IF qs = <<>> THEN <<>>
    ELSE SelectSeq([i \in 1..Len(Head(qs).stages) |-> Head(qs).stages[i]],
                   LAMBDA m : m.stage = stage)
         \o StageLatencies(Tail(qs), stage)
StageNames(qs) ==
    UNION {{qs[i].stages[j].stage : j \in 1..Len(qs[i].stages)} : i \in 1..Len(qs)}
SuccessfulAll(qs) == Len(qs)
Successful(qs) == Cardinality({i \in 1..Len(qs) : qs[i].success})
\* get_summary. error_rate is in ten-thousandths, the latency averages in
\* hundredths, the chunk averages in tenths, the answer length in units.
GetSummary(qs) ==
    IF qs = <<>> THEN [message |-> "No queries recorded yet"]
    ELSE LET total_queries == Len(qs)
             successful == Successful(qs)
             total_latencies == [i \in 1..Len(qs) |-> qs[i].total_latency_ms]
             times(stage) == LET ms == StageLatencies(qs, stage)
                             IN  [i \in 1..Len(ms) |-> ms[i].latency_ms]
         IN  [total_queries |-> total_queries,
              successful_queries |-> successful,
              error_rate |-> Round((total_queries - successful) * 10000, total_queries),
              avg_total_latency_ms |-> Round(SumSeq(total_latencies) * 100, Len(total_latencies)),
              min_total_latency_ms |-> MinSeq(total_latencies),
              max_total_latency_ms |-> MaxSeq(total_latencies),
              avg_chunks_retrieved |->
                  Round(SumSeq([i \in 1..Len(qs) |-> qs[i].chunks_retrieved]) * 10, total_queries),
              avg_chunks_after_rerank |->
                  Round(SumSeq([i \in 1..Len(qs) |-> qs[i].chunks_after_rerank]) * 10, total_queries),
              avg_answer_length |->
                  Round(SumSeq([i \in 1..Len(qs) |-> qs[i].answer_length]), total_queries),
              stage_latencies |->
                  [stage \in StageNames(qs) |->
                      [avg_ms |-> Round(SumSeq(times(stage)) * 100, Len(times(stage))),
                       min_ms |-> MinSeq(times(stage)),
                       max_ms |-> MaxSeq(times(stage)),
                       count |-> Len(times(stage))]]]

\* get_recent_queries: one entry of the list it returns; a dict keeps the
\* last latency given under a stage name.
RecentEntry(q) ==
    [total_ms |-> q.total_latency_ms, chunks |-> q.chunks_retrieved,
     reranked |-> q.chunks_after_rerank, answer_len |-> q.answer_length,
     success |-> q.success,
     stages |-> [stage \in {q.stages[j].stage : j \in 1..Len(q.stages)} |->
                    LET at == {j \in 1..Len(q.stages) : q.stages[j].stage = stage}
                    IN  q.stages[CHOOSE j \in at : \A k \in at : k <= j].latency_ms]]
\* get_recent_queries(n): recent = self._queries[-n:]
GetRecentQueries(qs, n) ==
    LET recent == PySliceFrom(qs, 0 - n)
    IN  [i \in 1..Len(recent) |-> RecentEntry(recent[i])]

MetricsInit ==
    /\ pipeline = FALSE
    /\ config \in {[DefaultConfig EXCEPT !.enable_metrics = b] : b \in BOOLEAN}
    /\ initialized = FALSE
    /\ emb_client = FALSE
    /\ vector_store = FALSE
    /\ rr_client = FALSE
    /\ llm = FALSE
    /\ llm_streaming = FALSE
    /\ store = <<>>
    /\ kw_documents = <<>>
    /\ total_documents = 0
    /\ stage_timers = {}
    /\ queries = <<>>
    /\ rerank_count = 0
    /\ generation_count = 0
    /\ last = NoCall
    /\ gen_pc = "idle"
    /\ events = <<>>
    /\ chunks_left = 0
    /\ service = "idle"
    /\ kw_term_freqs = <<>>
    /\ kw_idf = <<>>
    /\ threads = <<>>
    /\ timer_values = <<>>
    /\ embedder = <<>>
    /\ clock = 0
    /\ embed_requests = <<>>
    /\ timer_history = [stage \in TimerStages |-> "none"]

metricsRest ==
    <<pipeline, config, initialized, compVars, storeVars, countVars, streamVars, kwVars,
      threads, timer_values, rateVars>>

\* start_timer(stage)
MetricsStartTimer ==
    \E stage \in TimerStages :
        /\ stage_timers' = StartTimer(stage_timers, stage)
        /\ timer_history' = [timer_history EXCEPT ![stage] = "start"]
        /\ last' = Call("start_timer", stage, "ok", {}, None)
        /\ UNCHANGED <<metricsRest, queries>>
\* stop_timer(stage): the metric, with the elapsed time it measured, or None
MetricsStopTimer ==
    \E stage \in TimerStages, elapsed \in Latencies :
        /\ stage_timers' = StopTimer(stage_timers, stage)
        /\ timer_history' = [timer_history EXCEPT ![stage] = "stop"]
        /\ last' = Call("stop_timer", stage, "ok", {},
                        IF StopTimerReturns(stage_timers, stage)
                        THEN <<[stage |-> stage, latency_ms |-> elapsed]>>
                        ELSE None)
        /\ UNCHANGED <<metricsRest, queries>>
\* record_query(query, stages, chunks_retrieved, chunks_after_rerank, answer_length, success)
MetricsRecordQuery ==
    \E stages \in StageLists, counts \in CountInputs, success \in BOOLEAN :
        /\ Len(queries) < MaxHistory
        /\ queries' = StoreQuery(queries, QueryMetric(stages, counts, success))
        /\ last' = Call("record_query", [stages |-> stages, counts |-> counts], "ok", {},
                        QueryMetric(stages, counts, success))
        /\ UNCHANGED <<metricsRest, stage_timers, timer_history>>
\* reset()
MetricsReset ==
    /\ queries' = <<>>
    /\ stage_timers' = {}
    /\ timer_history' = [stage \in TimerStages |-> "reset"]
    /\ last' = Call("reset", <<>>, "ok", {}, None)
    /\ UNCHANGED metricsRest
\* get_summary()
MetricsGetSummary ==
    /\ last' = Call("get_summary", <<>>, "ok", {}, GetSummary(queries))
    /\ UNCHANGED <<metricsRest, metricVars, timer_history>>
\* get_recent_queries(n)
MetricsGetRecentQueries ==
    \E n \in 0..MaxRecent :
        /\ last' = Call("get_recent_queries", n, "ok", {}, GetRecentQueries(queries, n))
        /\ UNCHANGED <<metricsRest, metricVars, timer_history>>

MetricsNext ==
    \/ MetricsStartTimer
    \/ MetricsStopTimer
    \/ MetricsRecordQuery
    \/ MetricsReset
    \/ MetricsGetSummary
    \/ MetricsGetRecentQueries

MetricsSpec == MetricsInit /\ [][MetricsNext]_vars


\* ------------------------------------------- properties of the collector
\* C16: with the collector enabled, stop_timer(stage) returns a metric, for
\* that stage, exactly when the last of start_timer(stage), stop_timer(stage)
\* and reset() called before it was start_timer(stage); when it returns none
\* it raises nothing and leaves timers and history as they were.
C16_StopTimerReturnsIffRunning ==
    [][(config.enable_metrics /\ last'.op = "stop_timer")
          => /\ last'.outcome = "ok"
             /\ (last'.result # None) <=> (timer_history[last'.arg] = "start")
             /\ last'.result # None
                   => /\ last'.result[1].stage = last'.arg
                      /\ last'.arg \notin stage_timers'
             /\ last'.result = None
                   => stage_timers' = stage_timers /\ queries' = queries]_vars
\* A second stop of a stage returned nothing while another stage's timer,
\* started before, is still running.
C16_Witness ==
    /\ config.enable_metrics
    /\ last.op = "stop_timer" /\ last.result = None
    /\ timer_history[last.arg] = "stop"
    /\ \E stage \in TimerStages : timer_history[stage] = "start" /\ stage \in stage_timers

\* C17: with the collector disabled no timer runs and the history is empty,
\* whatever was called: stop_timer returns no metric, record_query returns a
\* record of zero latency, no stages and zero counts, and get_summary reports
\* that no queries are recorded.
C17_DisabledCollectorKeepsNothing ==
    ~config.enable_metrics
        => /\ stage_timers = {}
           /\ queries = <<>>
           /\ last.op = "stop_timer" => last.result = None
           /\ last.op = "record_query"
                 => /\ last.result.total_latency_ms = 0
                    /\ last.result.stages = <<>>
                    /\ last.result.chunks_retrieved = 0
                    /\ last.result.chunks_after_rerank = 0
                    /\ last.result.answer_length = 0
           /\ last.op = "get_summary" => DOMAIN last.result = {"message"}
\* The disabled collector was given a query with a stage and non-zero counts
\* after a timer had been started.
C17_Witness ==
    /\ ~config.enable_metrics
    /\ last.op = "record_query"
    /\ last.arg.stages # <<>> /\ last.arg.counts.chunks_retrieved > 0
    /\ \E stage \in TimerStages : timer_history[stage] = "start"

\* What a summary of the recorded history must say, counted from the history.
SuccessCount == Cardinality({i \in 1..Len(queries) : queries[i].success})
RecordedUnder(stage) ==
    {<<i, j>> \in (1..Len(queries)) \X (1..MaxStages) :
        j <= Len(queries[i].stages) /\ queries[i].stages[j].stage = stage}
SummaryCounts ==
    /\ last.result.total_queries = Len(queries)
    /\ last.result.successful_queries = SuccessCount
    /\ SuccessCount = Len(queries) => last.result.error_rate = 0
    /\ SuccessCount < Len(queries) => last.result.error_rate > 0
    /\ DOMAIN last.result.stage_latencies = {stage \in TimerStages : RecordedUnder(stage) # {}}
    /\ \A stage \in DOMAIN last.result.stage_latencies :
          last.result.stage_latencies[stage].count = Cardinality(RecordedUnder(stage))

\* C18: for a history of n >= 1 queries get_summary reports total_queries = n,
\* successful_queries = the number of successful records, error_rate equal to
\* (n - successful) / n, and stage_latencies keyed by exactly the recorded
\* stage names, each with the count of metrics recorded under it.
C18_SummaryErrorRateExact ==
    (last.op = "get_summary" /\ Len(queries) >= 1)
        => /\ SummaryCounts
           /\ last.result.error_rate * Len(queries) = (Len(queries) - SuccessCount) * 10000
\* C18, as the code has it: the same, with error_rate being
\* (n - successful) / n rounded to four decimals.
C18_SummaryErrorRateRounded ==
    (last.op = "get_summary" /\ Len(queries) >= 1)
        => /\ SummaryCounts
           /\ 2 * last.result.error_rate * Len(queries)
                 <= 2 * (Len(queries) - SuccessCount) * 10000 + Len(queries)
           /\ 2 * last.result.error_rate * Len(queries)
                 >= 2 * (Len(queries) - SuccessCount) * 10000 - Len(queries)
\* A summary of three queries of which one failed, with a stage recorded twice.
C18_Witness ==
    /\ last.op = "get_summary" /\ Len(queries) = 3 /\ SuccessCount = 2
    /\ \E stage \in TimerStages : Cardinality(RecordedUnder(stage)) = 2

\* C19: get_recent_queries(n), n >= 0, on a history of m queries returns
\* min(n, m) entries: the last min(n, m) recorded queries in insertion order.
C19_RecentQueriesAreTheLastN ==
    last.op = "get_recent_queries"
        => LET m == Len(queries)
               k == Min(last.arg, m)
           IN  /\ Len(last.result) = k
               /\ \A i \in 1..Len(last.result) :
                     i <= k => last.result[i] = RecentEntry(queries[m - k + i])


\* ------------------------------------------ properties of keyword search
SharesToken(document, query) ==
    Range(Tokenize(document)) \cap Range(Tokenize(query)) # {}

\* C21: keyword search returns at most top_k entries, each with a score
\* greater than zero and each a document containing a token of the query; a
\* query without tokens or an empty index gives the empty list.
C21_KeywordResultsPositiveAndBounded ==
    last.op = "search"
        => /\ Len(last.result) <= last.top[1]
           /\ \A i \in 1..Len(last.result) :
                 /\ last.result[i][2] > 0
                 /\ SharesToken(last.result[i][1], last.arg)
           /\ (Tokenize(last.arg) = <<>> \/ kw_documents = <<>>) => last.result = <<>>
\* A search over two documents with room for both returned only the one that
\* contains the query's token.
C21_Witness ==
    /\ last.op = "search" /\ last.top[1] = 2
    /\ Len(kw_documents) = 2 /\ Len(last.result) = 1
    /\ \E i \in 1..2 : ~SharesToken(kw_documents[i], last.arg)


TermsOf(documents) == UNION {Range(Tokenize(documents[i])) : i \in 1..Len(documents)}

\* C22: index(D2) replaces whatever was indexed before: after it the index
\* has one term-frequency entry per document of D2, its IDF table has an
\* entry for exactly the terms of D2, and every search gives what it gives on
\* a searcher that indexed D2 alone.
C22_IndexIsFullRebuild ==
    last.op = "index"
        => /\ kw_documents = last.arg
           /\ Len(kw_term_freqs) = Len(last.arg)
           /\ DOMAIN kw_idf = TermsOf(last.arg)
           /\ \A query \in KwTexts, top_k \in KwTopKs :
                 KwSearch(kw_documents, kw_term_freqs, kw_idf, query, top_k)
                    = KwSearch(last.arg, <<>> \o IndexTermFreqs(last.arg), IndexIdf(last.arg),
                               query, top_k)
\* A corpus was replaced by a shorter one that lacks one of its terms.
C22_Witness ==
    /\ last.op = "index"
    /\ Len(last.replaced) = 2 /\ Len(last.arg) = 1
    /\ TermsOf(last.replaced) \ TermsOf(last.arg) # {}


\* ===================================================== reciprocal rank fusion
\* HybridRetriever.retrieve and its static _reciprocal_rank_fusion as
\* functions of what the two searches return. The initial state holds the
\* inputs of one call (in `last`); the two actions apply the functions. A
\* document is its content; DocA and DocA2 differ after their first KeyLen
\* characters only.
MaxRank == 3
DocA == [i \in 1..KeyLen + 1 |-> "x"]
DocA2 == [i \in 1..KeyLen + 1 |-> IF i <= KeyLen THEN "x" ELSE "y"]
DocB == <<"B">>
DocC == <<"C">>
DocD == <<"D">>
FusionDocs == {DocA, DocA2, DocB, DocC, DocD}
\* Ranked lists as the searches return them: (document, score) pairs; the
\* fusion never reads the scores.
FusionLists == {[i \in 1..Len(ds) |-> <<ds[i], 1>>] : ds \in SeqsUpTo(FusionDocs, MaxRank)}
FusionConfigs ==
    {DefaultConfig,
     [DefaultConfig EXCEPT !.semantic_weight = 3, !.keyword_weight = 7],
     [DefaultConfig EXCEPT !.use_hybrid = FALSE]}
FusionTopKs == {None, <<0>>, <<2>>, <<DefaultTopK>>}

FusionInit ==
    /\ pipeline = FALSE
    /\ config \in FusionConfigs
    /\ initialized = FALSE
    /\ emb_client = TRUE
    /\ vector_store = TRUE
    /\ rr_client = FALSE
    /\ llm = FALSE
    /\ llm_streaming = FALSE
    /\ store = <<>>
    /\ kw_documents = <<>>
    /\ total_documents = 0
    /\ stage_timers = {}
    /\ queries = <<>>
    /\ rerank_count = 0
    /\ generation_count = 0
    /\ \E semantic \in FusionLists, keyword \in FusionLists, top_k \in FusionTopKs :
          last = [NoCall EXCEPT !.arg = [semantic |-> semantic, keyword |-> keyword],
                                !.top = top_k]
    /\ gen_pc = "idle"
    /\ events = <<>>
    /\ chunks_left = 0
    /\ service = "idle"
    /\ UnitInit

fusionRest ==
    <<pipeline, config, initialized, compVars, storeVars, metricVars, countVars,
      streamVars, unitVars>>
\* _reciprocal_rank_fusion(semantic, keyword, semantic_weight, keyword_weight, top_k)
FusionCall ==
    /\ last.op = "none" /\ last.top # None
    /\ last' = [last EXCEPT
                   !.op = "_reciprocal_rank_fusion", !.outcome = "ok",
                   !.result = ReciprocalRankFusion(last.arg.semantic, last.arg.keyword,
                                                   config.semantic_weight,
                                                   config.keyword_weight, last.top[1])]
    /\ UNCHANGED fusionRest
\* retrieve(query, top_k), the two searches ranking the documents as given:
\* each returns its first k.
RetrieveCall ==
    /\ last.op = "none"
    /\ LET k == PyOr(last.top, config.top_k)
       IN  last' = [last EXCEPT
                       !.op = "retrieve", !.outcome = "ok",
                       !.result = Retrieve(config, PySlice(last.arg.semantic, k),
                                           PySlice(last.arg.keyword, k), k)]
    /\ UNCHANGED fusionRest

FusionNext == FusionCall \/ RetrieveCall

FusionSpec == FusionInit /\ [][FusionNext]_vars


\* --------------------------------------------------- properties of fusion
Fused == last.op = "_reciprocal_rank_fusion"
\* The positions of `list` that hold a document of identity `key`.
RanksOf(list, key) == {i \in 1..Len(list) : SubSeq(list[i][1], 1, Min(KeyLen, Len(list[i][1]))) = key}
\* weight / (60 + rank + 1), rank counted from 0, for the entry at position i.
Contribution(weight, i) == (weight * RRF_SCALE) \div (60 + (i - 1) + 1)
ContributionSum(weight, list, key) ==
    SumOver([i \in RanksOf(list, key) |-> Contribution(weight, i)], RanksOf(list, key))
EntryKey(entry) == SubSeq(entry[1], 1, Min(KeyLen, Len(entry[1])))

\* C23: each fused entry's score is the sum of its contributions
\* weight / (60 + rank + 1) over the positions, ranked from 0, at which its
\* identity (the first 200 characters of the content) stands in the semantic
\* and in the keyword list, and no identity appears twice in the output.
C23_FusedScoreIsSumOfContributions ==
    Fused
        => /\ \A i \in 1..Len(last.result) :
                 last.result[i][2]
                    = ContributionSum(config.semantic_weight, last.arg.semantic,
                                      EntryKey(last.result[i]))
                      + ContributionSum(config.keyword_weight, last.arg.keyword,
                                        EntryKey(last.result[i]))
           /\ \A i, j \in 1..Len(last.result) :
                 i # j => EntryKey(last.result[i]) # EntryKey(last.result[j])
\* Two documents that share their first 200 characters, one ranked second by
\* the semantic search and one ranked first by the keyword search, were
\* fused into one entry; another document came from one list only.
C23_Witness ==
    /\ Fused /\ last.top[1] >= 2
    /\ Len(last.arg.semantic) >= 2 /\ last.arg.semantic[2][1] = DocA
    /\ Len(last.arg.keyword) >= 1 /\ last.arg.keyword[1][1] = DocA2
    /\ last.arg.semantic[1][1] = DocB
    /\ RanksOf(last.arg.keyword, DocB) = {}
    /\ Len(last.result) = 2

DefaultWeights == config.semantic_weight = 7 /\ config.keyword_weight = 3
ListOf(docs) == [i \in 1..Len(docs) |-> <<docs[i], 1>>]
PositionOf(doc) == CHOOSE i \in 1..Len(last.result) : last.result[i][1] = doc
\* C24: the semantic list [A, B, C] and the keyword list [B, A, D] fused with
\* the weights 0.7 / 0.3 give one ranking, in which A and B both stand above
\* C and D.
C24_SharedDocumentsRankFirst ==
    (/\ Fused /\ DefaultWeights /\ last.top[1] >= 4
     /\ last.arg.semantic = ListOf(<<DocA, DocB, DocC>>)
     /\ last.arg.keyword = ListOf(<<DocB, DocA, DocD>>))
        => /\ {last.result[i][1] : i \in 1..Len(last.result)} = {DocA, DocB, DocC, DocD}
           /\ \A x \in {DocA, DocB}, y \in {DocC, DocD} : PositionOf(x) < PositionOf(y)
           /\ [i \in 1..Len(last.result) |-> last.result[i][1]] = <<DocA, DocB, DocC, DocD>>
C24_Witness ==
    /\ Fused /\ DefaultWeights /\ last.top[1] >= 4
    /\ last.arg.semantic = ListOf(<<DocA, DocB, DocC>>)
    /\ last.arg.keyword = ListOf(<<DocB, DocA, DocD>>)
    /\ Len(last.result) = 4

\* C25: in hybrid mode retrieve() returns a list sorted by non-increasing
\* fused score, of at most top_k entries (the caller's top_k, or the
\* configured one when the caller gives none), all of them documents of the
\* semantic or the keyword list.
C25_RetrieveSortedAndBounded ==
    (last.op = "retrieve" /\ config.use_hybrid /\ config.enable_hybrid_search)
        => /\ \A i \in 1..Len(last.result) - 1 : last.result[i][2] >= last.result[i + 1][2]
           /\ Len(last.result) <= (IF last.top = None THEN config.top_k ELSE last.top[1])
           /\ \A i \in 1..Len(last.result) :
                 \E j \in 1..Len(last.arg.semantic \o last.arg.keyword) :
                    (last.arg.semantic \o last.arg.keyword)[j][1] = last.result[i][1]


\* ----------------------------------------------- the keyword score formula
\* The number of documents of the index that contain `term`.
DocumentFrequency(term) ==
    Cardinality({i \in 1..Len(kw_documents) : term \in Range(Tokenize(kw_documents[i]))})
\* The sum, over the terms of the query present in the document, of
\* (term frequency / document length) * idf(term), in the model's score unit.
TfIdfScore(document, query) ==
    LET tokens == Tokenize(document)
        present == Range(Tokenize(query)) \cap Range(tokens)
        count(t) == Cardinality({i \in 1..Len(tokens) : tokens[i] = t})
    IN  SumOver([t \in present |->
                    (count(t) * (ScoreScale \div Len(tokens)))
                    * IdfMilli[Len(kw_documents)][DocumentFrequency(t)]],
                present)

\* C28: the score keyword search gives a document is the sum over the query
\* terms present in it of (term frequency / document length) * idf(term),
\* with idf(term) = ln((N + 1) / (df + 1)) + 1: it depends on which terms
\* the query contains, not on how often the query repeats them.
C28_KeywordScoreIsTfIdfOverQueryTerms ==
    last.op = "search"
        => \A i \in 1..Len(last.result) :
              last.result[i][2] = TfIdfScore(last.result[i][1], last.arg)


\* ================================================================== chunker
\* SemanticChunker.chunk_documents and chunk_text as functions of the documents,
\* the source name and the chunking options, in a build where tiktoken is not
\* installed (chunker.py:25-27): _tokenizer is None, token_length counts four
\* characters per token and the splitter is the character-based one. The
\* initial state holds the inputs of one call (in `last`); the two actions
\* apply the functions. Texts are sequences of characters.
MaxDocs == 1
MaxPieces == 3
MaxChunkSize == 2
CharsPerToken == 4
PreviewLen == 150

\* ChunkingConfig.separators' default.
DefaultSeparators ==
    << <<"\n", "\n", "\n">>, <<"\n", "\n">>, <<"\n">>, <<".", " ">>, <<"?", " ">>,
       <<"!", " ">>, <<";", " ">>, <<",", " ">>, <<" ">>, <<>> >>
\* A configured list that stops at word breaks.
WordSeparators == << <<"\n", "\n">>, <<" ">> >>
ChunkingConfigs ==
    [chunk_size : 1..MaxChunkSize,
     chunk_overlap : {0, 1},
     separators : {DefaultSeparators, WordSeparators}]

\* token_length with no tokenizer: len(text) // 4.
TokenLength(text) == Len(text) \div CharsPerToken

\* The least position >= from where sep occurs in text, 0 if there is none.
FindFrom(text, sep, from) ==
    LET ps == {p \in from..(Len(text) - Len(sep) + 1) :
                  SubSeq(text, p, p + Len(sep) - 1) = sep}
    IN  IF ps = {} THEN 0 ELSE CHOOSE p \in ps : \A q \in ps : p <= q

\* The splitter's split on one separator, the separator kept at the start of
\* the piece that follows it, empty pieces dropped; the empty separator splits
\* into characters.
RECURSIVE SplitKeepFrom(_, _, _)
SplitKeepFrom(text, sep, from) ==
    LET p == FindFrom(text, sep, from)
    IN  IF p = 0 THEN <<text>>
        ELSE <<SubSeq(text, 1, p - 1)>>
                 \o SplitKeepFrom(SubSeq(text, p, Len(text)), sep, Len(sep) + 1)
SplitTextWithSeparator(text, sep) ==
    LET splits == IF sep = <<>> THEN [i \in 1..Len(text) |-> <<text[i]>>]
                  ELSE SplitKeepFrom(text, sep, 1)
    IN  SelectSeq(splits, LAMBDA s : s # <<>>)

\* The separator a text is split on: the first of the list that occurs in it
\* (with the separators after it left for the pieces), the empty separator as
\* soon as the list reaches it, the last of the list when none occurs.
RECURSIVE ChooseSeparator(_, _, _)
ChooseSeparator(text, separators, i) ==
    IF i > Len(separators)
    THEN [separator |-> separators[Len(separators)], new_separators |-> <<>>]
    ELSE IF separators[i] = <<>>
    THEN [separator |-> <<>>, new_separators |-> <<>>]
    ELSE IF FindFrom(text, separators[i], 1) # 0
    THEN [separator |-> separators[i], new_separators |-> PySliceFrom(separators, i)]
    ELSE ChooseSeparator(text, separators, i + 1)

RECURSIVE Concat(_)
Concat(pieces) == IF pieces = <<>> THEN <<>> ELSE Head(pieces) \o Concat(Tail(pieces))
\* The pieces of one chunk joined and stripped; <<>> when nothing is left.
JoinDocs(pieces) == Strip(Concat(pieces))

\* The pieces that stay as the overlap of the next chunk: pieces are dropped
\* from the front while they are longer than the overlap, or while the next
\* piece would not fit.
RECURSIVE DropForOverlap(_, _, _, _)
DropForOverlap(current_doc, len, chunk_size, chunk_overlap) ==
    LET total == Len(Concat(current_doc))
    IN  IF total > chunk_overlap \/ (total + len > chunk_size /\ total > 0)
        THEN DropForOverlap(Tail(current_doc), len, chunk_size, chunk_overlap)
        ELSE current_doc

\* The chunk the collected pieces make, if stripping leaves anything of it.
EmitDoc(current_doc) ==
    IF JoinDocs(current_doc) = <<>> THEN <<>> ELSE <<JoinDocs(current_doc)>>
\* The splitter's merge loop from the pieces `splits` on, current_doc being
\* the pieces collected so far: when the next piece does not fit, the
\* collected pieces are emitted as a chunk and all but the overlap dropped.
RECURSIVE MergeFrom(_, _, _, _)
MergeFrom(splits, current_doc, chunk_size, chunk_overlap) ==
    IF splits = <<>> THEN EmitDoc(current_doc)
    ELSE IF /\ Len(Concat(current_doc)) + Len(Head(splits)) > chunk_size
            /\ current_doc # <<>>
    THEN EmitDoc(current_doc)
             \o MergeFrom(Tail(splits),
                          Append(DropForOverlap(current_doc, Len(Head(splits)),
                                                chunk_size, chunk_overlap),
                                 Head(splits)),
                          chunk_size, chunk_overlap)
    ELSE MergeFrom(Tail(splits), Append(current_doc, Head(splits)),
                   chunk_size, chunk_overlap)
\* The splitter's merge of small pieces into chunks of at most chunk_size
\* characters (pieces keep their separators, so they are joined by nothing).
MergeSplits(splits, chunk_size, chunk_overlap) ==
    MergeFrom(splits, <<>>, chunk_size, chunk_overlap)

\* The number of leading pieces shorter than chunk_size: the run the split
\* loop collects in _good_splits before it meets a longer piece or the end.
GoodRun(splits, chunk_size) ==
    LET long == {i \in 1..Len(splits) : Len(splits[i]) >= chunk_size}
    IN  IF long = {} THEN Len(splits)
        ELSE (CHOOSE i \in long : \A j \in long : i <= j) - 1
\* The recursive split of one text: runs of pieces shorter than chunk_size
\* are merged; a longer piece is split again on the remaining separators,
\* and emitted as it is when no separator remains.
RECURSIVE SplitText(_, _, _, _)
RECURSIVE SplitLoop(_, _, _, _)
SplitLoop(splits, new_separators, chunk_size, chunk_overlap) ==
    IF splits = <<>> THEN <<>>
    ELSE IF GoodRun(splits, chunk_size) > 0
    THEN MergeSplits(SubSeq(splits, 1, GoodRun(splits, chunk_size)),
                     chunk_size, chunk_overlap)
             \o SplitLoop(SubSeq(splits, GoodRun(splits, chunk_size) + 1, Len(splits)),
                          new_separators, chunk_size, chunk_overlap)
    ELSE (IF new_separators = <<>> THEN <<Head(splits)>>
          ELSE SplitText(Head(splits), new_separators, chunk_size, chunk_overlap))
             \o SplitLoop(Tail(splits), new_separators, chunk_size, chunk_overlap)
SplitText(text, separators, chunk_size, chunk_overlap) ==
    SplitLoop(SplitTextWithSeparator(text, ChooseSeparator(text, separators, 1).separator),
              ChooseSeparator(text, separators, 1).new_separators,
              chunk_size, chunk_overlap)

\* splitter.split_documents with the character-based splitter of the
\* fallback: each piece of a document becomes a chunk with a copy of the
\* document's metadata.
RECURSIVE SplitDocuments(_, _)
SplitDocuments(documents, cfg) ==
    IF documents = <<>> THEN <<>>
    ELSE LET doc == Head(documents)
             texts == SplitText(doc.page_content, cfg.separators,
                                cfg.chunk_size * CharsPerToken,
                                cfg.chunk_overlap * CharsPerToken)
         IN  [i \in 1..Len(texts) |->
                 [page_content |-> texts[i], metadata |-> doc.metadata]]
             \o SplitDocuments(Tail(documents), cfg)

\* dict.update: the new entries replace the old ones of the same key.
Update(metadata, entries) == entries @@ metadata
\* dict.get("page", 0)
PageOf(metadata) == IF "page" \in DOMAIN metadata THEN metadata["page"] ELSE 0
\* page_content[:150].replace("\n", " ").strip()
Preview(text) ==
    Strip([i \in 1..Len(PySlice(text, PreviewLen)) |->
              IF text[i] = "\n" THEN " " ELSE text[i]])
\* The keys chunk_documents writes into every chunk.
Enrichment(chunk, i, total, source_name) ==
    [chunk_id |-> i - 1,
     chunk_index |-> i - 1,
     total_chunks |-> total,
     chunk_size_tokens |-> TokenLength(chunk.page_content),
     source_name |-> source_name,
     preview |-> Preview(chunk.page_content)]
\* ChunkStats, the average as the pair (sum, count).
ChunkStats(chunks) ==
    LET token_counts == [i \in 1..Len(chunks) |-> TokenLength(chunks[i].page_content)]
    IN  [total_chunks |-> Len(chunks),
         avg_tokens_per_chunk |-> <<SumSeq(token_counts), Len(token_counts)>>,
         min_tokens |-> MinSeq(token_counts),
         max_tokens |-> MaxSeq(token_counts),
         total_tokens |-> SumSeq(token_counts),
         source_pages |-> Cardinality({PageOf(chunks[i].metadata) : i \in 1..Len(chunks)})]
NoChunkStats ==
    [total_chunks |-> 0, avg_tokens_per_chunk |-> <<0, 1>>, min_tokens |-> 0,
     max_tokens |-> 0, total_tokens |-> 0, source_pages |-> 0]
\* chunk_documents(documents, source_name): (chunks, stats)
ChunkDocuments(documents, source_name, cfg) ==
    LET chunks == SplitDocuments(documents, cfg)
        enriched == [i \in 1..Len(chunks) |->
                        [chunks[i] EXCEPT !.metadata =
                            Update(@, Enrichment(chunks[i], i, Len(chunks), source_name))]]
    IN  IF chunks = <<>> THEN <<<<>>, NoChunkStats>>
        ELSE <<enriched, ChunkStats(enriched)>>
\* chunk_text(text, metadata, source_name); metadata is <<>> (None) or <<dict>>.
ChunkText(text, metadata, source_name, cfg) ==
    ChunkDocuments(<<[page_content |-> text,
                      metadata |-> IF metadata = <<>> THEN [source |-> source_name]
                                   ELSE metadata[1]]>>,
                   source_name, cfg)

\* The inputs: texts of short and long words, blanks and paragraph breaks.
ShortWord == <<"a", "a", "a">>
LongWord == [i \in 1..(3 * CharsPerToken) |-> "a"]
ChunkPieces == {ShortWord, LongWord, <<" ">>, <<"\n", "\n">>}
ChunkTexts == {Concat(ps) : ps \in SeqsUpTo(ChunkPieces, MaxPieces)}
\* Source metadata: a loaded PDF page with a custom field, a text input, and
\* documents that are themselves chunks of an earlier run.
SourceMetadata ==
    {[page |-> 5, source |-> "doc.pdf", custom |-> "value"],
     [source |-> "notes"],
     [source |-> "notes", source_name |-> "lecture", chunk_id |-> 7]}
SourceDocuments == [page_content : ChunkTexts, metadata : SourceMetadata]
SourceNames == {"unknown", "test.pdf"}

ChunkerInit ==
    /\ pipeline = FALSE
    /\ \E cfg \in ChunkingConfigs : config = [chunking |-> cfg] @@ DefaultConfig
    /\ initialized = FALSE
    /\ emb_client = TRUE
    /\ vector_store = TRUE
    /\ rr_client = FALSE
    /\ llm = FALSE
    /\ llm_streaming = FALSE
    /\ store = <<>>
    /\ kw_documents = <<>>
    /\ total_documents = 0
    /\ stage_timers = {}
    /\ queries = <<>>
    /\ rerank_count = 0
    /\ generation_count = 0
    /\ \E documents \in SeqsUpTo(SourceDocuments, MaxDocs), source_name \in SourceNames :
          last = [NoCall EXCEPT !.arg = [documents |-> documents,
                                         source_name |-> source_name]]
    /\ gen_pc = "idle"
    /\ events = <<>>
    /\ chunks_left = 0
    /\ service = "idle"
    /\ UnitInit

\* chunker.chunk_documents(documents, source_name)
ChunkDocumentsCall ==
    /\ last.op = "none"
    /\ last' = [last EXCEPT
                   !.op = "chunk_documents", !.outcome = "ok",
                   !.result = ChunkDocuments(last.arg.documents, last.arg.source_name,
                                             config.chunking)]
    /\ UNCHANGED fusionRest
\* chunker.chunk_text(text, metadata, source_name), with the text and the
\* metadata of the one document drawn, or with no metadata.
ChunkTextCall ==
    /\ last.op = "none"
    /\ Len(last.arg.documents) = 1
    /\ \E metadata \in {<<>>, <<last.arg.documents[1].metadata>>} :
          last' = [last EXCEPT
                      !.op = "chunk_text", !.outcome = "ok",
                      !.top = metadata,
                      !.result = ChunkText(last.arg.documents[1].page_content, metadata,
                                           last.arg.source_name, config.chunking)]
    /\ UNCHANGED fusionRest

ChunkerNext == ChunkDocumentsCall \/ ChunkTextCall

ChunkerSpec == ChunkerInit /\ [][ChunkerNext]_vars


\* -------------------------------------------------- properties of the chunker
\* The documents a chunking call split: the list given to chunk_documents, the
\* one document chunk_text wraps.
Chunked == last.op \in {"chunk_documents", "chunk_text"}
SourcesOf ==
    IF last.op = "chunk_documents" THEN last.arg.documents
    ELSE <<[page_content |-> last.arg.documents[1].page_content,
            metadata |-> IF last.top = <<>> THEN [source |-> last.arg.source_name]
                         ELSE last.top[1]]>>
\* The number of chunks the first j source documents gave.
ChunksUpTo(j) == Len(SplitDocuments(SubSeq(SourcesOf, 1, j), config.chunking))
\* The source document of the i-th chunk.
SourceOfChunk(i) ==
    SourcesOf[CHOOSE j \in 1..Len(SourcesOf) : ChunksUpTo(j - 1) < i /\ i <= ChunksUpTo(j)]

\* C26: every chunk carries all metadata of its source document verbatim:
\* every key of the source document's metadata is a key of the chunk's
\* metadata, with the same value.
C26_ChunksKeepSourceMetadata ==
    Chunked
        => \A i \in 1..Len(last.result[1]) :
              LET source == SourceOfChunk(i).metadata
                  chunk == last.result[1][i].metadata
              IN  \A key \in DOMAIN source :
                      key \in DOMAIN chunk /\ chunk[key] = source[key]

\* C27: every chunk's chunk_size_tokens, which is the token length of its
\* content in the measure the splitter ran with, is at most twice the
\* configured chunk_size.
C27_ChunkSizeWithinTwiceTheBudget ==
    Chunked
        => \A i \in 1..Len(last.result[1]) :
              LET chunk == last.result[1][i]
              IN  /\ chunk.metadata["chunk_size_tokens"] = TokenLength(chunk.page_content)
                  /\ chunk.metadata["chunk_size_tokens"] <= 2 * config.chunking.chunk_size


\* ------------------------------------------ properties of the pipeline stream
\* C29: every event sequence query_stream produces, on the path where nothing
\* is retrieved as on the others, is zero or more content events, then
\* exactly one sources event, then exactly one done event, or content events
\* ended by a single error event.
C29_QueryStreamFollowsProtocol ==
    (last.op = "query_stream" /\ last.outcome = "ok") => CompleteStream(last.result)


\* --------------------------------------------- properties of the stage timers
\* C30: when a pipeline operation (load_pdf, load_text, query) has finished,
\* by returning or by raising, the metrics collector holds no stage timer
\* that was started and not stopped.
C30_NoTimerLeftRunning ==
    last.op \in {"load_pdf", "load_text", "query"} => stage_timers = {}


=============================================================================
